---- MODULE Spec2Model ----
(***************************************************************************)
(* Verification model of the gradschool script collection.  Every script   *)
(* is an independent command-line program; each gets its own variables,    *)
(* its own actions and its own specification.  Files are sequences of      *)
(* lines, a line is a record of its marker text and its numeric tokens.    *)
(***************************************************************************)
EXTENDS Integers, Sequences, FiniteSets, TLC

(* ------------------------------ bounds --------------------------------- *)
MaxLines == 6
MaxSessions == 3
MaxPixels == 3
MaxSpectra == 3
MaxLogLines == 3
MaxPartitions == 3
MaxXmlLines == 3
MaxParam == 2
MaxRoot == 6
MaxTimeFs == 25
MaxListLines == 3

(* ------------------------------- state --------------------------------- *)
\* fchk2xyz
VARIABLES fx_path, fx_file, fx_pc, fx_flags, fx_xyz, fx_err
\* rmCosmicRays, get_user_inputs
VARIABLES rc_log, rc_session, rc_call
\* rmCosmicRays, spectra processing
VARIABLES sp_pc, sp_files, sp_baseline, sp_fit, sp_data, sp_den, sp_out,
          sp_err
\* analyzeTDDFT
VARIABLES td_isfile, td_logfile, td_writable, td_side, td_args, td_pc,
          td_line_number, td_excited_states, td_outfile, td_stdout, td_exc
\* cubeGridGen
VARIABLES cg_args, cg_atoms, cg_pc, cg_grid, cg_step, cg_written, cg_err
\* argument parsing of the converters and solvers
VARIABLES ar_script, ar_args, ar_pc, ar_opened, ar_created, ar_err
\* setTDDFTfromDFTB
VARIABLES st_dir, st_before, st_py312, st_pc, st_com_files,
          st_submission_commands, st_err
\* tmSolver
VARIABLES tm_fn, tm_params, tm_pc, tm_roots, tm_tau_m
\* xml2list
VARIABLES xl_argv, xl_xml, xl_isfile, xl_pc, xl_stdout, xl_opened, xl_peaks,
          xl_list, xl_err
\* makeCubes4gif
VARIABLES mc_args, mc_pc, mc_i, mc_commands, mc_files
\* list2peaks
VARIABLES lp_listfile, lp_pc, lp_i, lp_peaks, lp_peaksfile, lp_err

vars == <<fx_path, fx_file, fx_pc, fx_flags, fx_xyz, fx_err, rc_log,
    rc_session, rc_call, sp_pc, sp_files, sp_baseline, sp_fit, sp_data,
    sp_den, sp_out, sp_err, td_isfile, td_logfile, td_writable, td_side,
    td_args, td_pc, td_line_number, td_excited_states, td_outfile, td_stdout,
    td_exc, cg_args, cg_atoms, cg_pc, cg_grid, cg_step, cg_written, cg_err,
    ar_script, ar_args, ar_pc, ar_opened, ar_created, ar_err, st_dir,
    st_before, st_py312, st_pc, st_com_files, st_submission_commands, st_err,
    tm_fn, tm_params, tm_pc, tm_roots, tm_tau_m, xl_argv, xl_xml, xl_isfile,
    xl_pc, xl_stdout, xl_opened, xl_peaks, xl_list, xl_err, mc_args, mc_pc,
    mc_i, mc_commands, mc_files, lp_listfile, lp_pc, lp_i, lp_peaks,
    lp_peaksfile, lp_err>>

\* what the steps of one script leave alone: the state of the others
fx_rest == <<rc_log, rc_session, rc_call, sp_pc, sp_files, sp_baseline,
    sp_fit, sp_data, sp_den, sp_out, sp_err, td_isfile, td_logfile,
    td_writable, td_side, td_args, td_pc, td_line_number, td_excited_states,
    td_outfile, td_stdout, td_exc, cg_args, cg_atoms, cg_pc, cg_grid,
    cg_step, cg_written, cg_err, ar_script, ar_args, ar_pc, ar_opened,
    ar_created, ar_err, st_dir, st_before, st_py312, st_pc, st_com_files,
    st_submission_commands, st_err, tm_fn, tm_params, tm_pc, tm_roots,
    tm_tau_m, xl_argv, xl_xml, xl_isfile, xl_pc, xl_stdout, xl_opened,
    xl_peaks, xl_list, xl_err, mc_args, mc_pc, mc_i, mc_commands, mc_files,
    lp_listfile, lp_pc, lp_i, lp_peaks, lp_peaksfile, lp_err>>
rc_rest == <<fx_path, fx_file, fx_pc, fx_flags, fx_xyz, fx_err, sp_pc,
    sp_files, sp_baseline, sp_fit, sp_data, sp_den, sp_out, sp_err,
    td_isfile, td_logfile, td_writable, td_side, td_args, td_pc,
    td_line_number, td_excited_states, td_outfile, td_stdout, td_exc,
    cg_args, cg_atoms, cg_pc, cg_grid, cg_step, cg_written, cg_err,
    ar_script, ar_args, ar_pc, ar_opened, ar_created, ar_err, st_dir,
    st_before, st_py312, st_pc, st_com_files, st_submission_commands, st_err,
    tm_fn, tm_params, tm_pc, tm_roots, tm_tau_m, xl_argv, xl_xml, xl_isfile,
    xl_pc, xl_stdout, xl_opened, xl_peaks, xl_list, xl_err, mc_args, mc_pc,
    mc_i, mc_commands, mc_files, lp_listfile, lp_pc, lp_i, lp_peaks,
    lp_peaksfile, lp_err>>
sp_rest == <<fx_path, fx_file, fx_pc, fx_flags, fx_xyz, fx_err, rc_log,
    rc_session, rc_call, td_isfile, td_logfile, td_writable, td_side,
    td_args, td_pc, td_line_number, td_excited_states, td_outfile, td_stdout,
    td_exc, cg_args, cg_atoms, cg_pc, cg_grid, cg_step, cg_written, cg_err,
    ar_script, ar_args, ar_pc, ar_opened, ar_created, ar_err, st_dir,
    st_before, st_py312, st_pc, st_com_files, st_submission_commands, st_err,
    tm_fn, tm_params, tm_pc, tm_roots, tm_tau_m, xl_argv, xl_xml, xl_isfile,
    xl_pc, xl_stdout, xl_opened, xl_peaks, xl_list, xl_err, mc_args, mc_pc,
    mc_i, mc_commands, mc_files, lp_listfile, lp_pc, lp_i, lp_peaks,
    lp_peaksfile, lp_err>>
td_rest == <<fx_path, fx_file, fx_pc, fx_flags, fx_xyz, fx_err, rc_log,
    rc_session, rc_call, sp_pc, sp_files, sp_baseline, sp_fit, sp_data,
    sp_den, sp_out, sp_err, cg_args, cg_atoms, cg_pc, cg_grid, cg_step,
    cg_written, cg_err, ar_script, ar_args, ar_pc, ar_opened, ar_created,
    ar_err, st_dir, st_before, st_py312, st_pc, st_com_files,
    st_submission_commands, st_err, tm_fn, tm_params, tm_pc, tm_roots,
    tm_tau_m, xl_argv, xl_xml, xl_isfile, xl_pc, xl_stdout, xl_opened,
    xl_peaks, xl_list, xl_err, mc_args, mc_pc, mc_i, mc_commands, mc_files,
    lp_listfile, lp_pc, lp_i, lp_peaks, lp_peaksfile, lp_err>>
cg_rest == <<fx_path, fx_file, fx_pc, fx_flags, fx_xyz, fx_err, rc_log,
    rc_session, rc_call, sp_pc, sp_files, sp_baseline, sp_fit, sp_data,
    sp_den, sp_out, sp_err, td_isfile, td_logfile, td_writable, td_side,
    td_args, td_pc, td_line_number, td_excited_states, td_outfile, td_stdout,
    td_exc, ar_script, ar_args, ar_pc, ar_opened, ar_created, ar_err, st_dir,
    st_before, st_py312, st_pc, st_com_files, st_submission_commands, st_err,
    tm_fn, tm_params, tm_pc, tm_roots, tm_tau_m, xl_argv, xl_xml, xl_isfile,
    xl_pc, xl_stdout, xl_opened, xl_peaks, xl_list, xl_err, mc_args, mc_pc,
    mc_i, mc_commands, mc_files, lp_listfile, lp_pc, lp_i, lp_peaks,
    lp_peaksfile, lp_err>>
ar_rest == <<fx_path, fx_file, fx_pc, fx_flags, fx_xyz, fx_err, rc_log,
    rc_session, rc_call, sp_pc, sp_files, sp_baseline, sp_fit, sp_data,
    sp_den, sp_out, sp_err, td_isfile, td_logfile, td_writable, td_side,
    td_args, td_pc, td_line_number, td_excited_states, td_outfile, td_stdout,
    td_exc, cg_args, cg_atoms, cg_pc, cg_grid, cg_step, cg_written, cg_err,
    st_dir, st_before, st_py312, st_pc, st_com_files, st_submission_commands,
    st_err, tm_fn, tm_params, tm_pc, tm_roots, tm_tau_m, xl_argv, xl_xml,
    xl_isfile, xl_pc, xl_stdout, xl_opened, xl_peaks, xl_list, xl_err,
    mc_args, mc_pc, mc_i, mc_commands, mc_files, lp_listfile, lp_pc, lp_i,
    lp_peaks, lp_peaksfile, lp_err>>
st_rest == <<fx_path, fx_file, fx_pc, fx_flags, fx_xyz, fx_err, rc_log,
    rc_session, rc_call, sp_pc, sp_files, sp_baseline, sp_fit, sp_data,
    sp_den, sp_out, sp_err, td_isfile, td_logfile, td_writable, td_side,
    td_args, td_pc, td_line_number, td_excited_states, td_outfile, td_stdout,
    td_exc, cg_args, cg_atoms, cg_pc, cg_grid, cg_step, cg_written, cg_err,
    ar_script, ar_args, ar_pc, ar_opened, ar_created, ar_err, tm_fn,
    tm_params, tm_pc, tm_roots, tm_tau_m, xl_argv, xl_xml, xl_isfile, xl_pc,
    xl_stdout, xl_opened, xl_peaks, xl_list, xl_err, mc_args, mc_pc, mc_i,
    mc_commands, mc_files, lp_listfile, lp_pc, lp_i, lp_peaks, lp_peaksfile,
    lp_err>>
tm_rest == <<fx_path, fx_file, fx_pc, fx_flags, fx_xyz, fx_err, rc_log,
    rc_session, rc_call, sp_pc, sp_files, sp_baseline, sp_fit, sp_data,
    sp_den, sp_out, sp_err, td_isfile, td_logfile, td_writable, td_side,
    td_args, td_pc, td_line_number, td_excited_states, td_outfile, td_stdout,
    td_exc, cg_args, cg_atoms, cg_pc, cg_grid, cg_step, cg_written, cg_err,
    ar_script, ar_args, ar_pc, ar_opened, ar_created, ar_err, st_dir,
    st_before, st_py312, st_pc, st_com_files, st_submission_commands, st_err,
    xl_argv, xl_xml, xl_isfile, xl_pc, xl_stdout, xl_opened, xl_peaks,
    xl_list, xl_err, mc_args, mc_pc, mc_i, mc_commands, mc_files,
    lp_listfile, lp_pc, lp_i, lp_peaks, lp_peaksfile, lp_err>>
xl_rest == <<fx_path, fx_file, fx_pc, fx_flags, fx_xyz, fx_err, rc_log,
    rc_session, rc_call, sp_pc, sp_files, sp_baseline, sp_fit, sp_data,
    sp_den, sp_out, sp_err, td_isfile, td_logfile, td_writable, td_side,
    td_args, td_pc, td_line_number, td_excited_states, td_outfile, td_stdout,
    td_exc, cg_args, cg_atoms, cg_pc, cg_grid, cg_step, cg_written, cg_err,
    ar_script, ar_args, ar_pc, ar_opened, ar_created, ar_err, st_dir,
    st_before, st_py312, st_pc, st_com_files, st_submission_commands, st_err,
    tm_fn, tm_params, tm_pc, tm_roots, tm_tau_m, mc_args, mc_pc, mc_i,
    mc_commands, mc_files, lp_listfile, lp_pc, lp_i, lp_peaks, lp_peaksfile,
    lp_err>>
mc_rest == <<fx_path, fx_file, fx_pc, fx_flags, fx_xyz, fx_err, rc_log,
    rc_session, rc_call, sp_pc, sp_files, sp_baseline, sp_fit, sp_data,
    sp_den, sp_out, sp_err, td_isfile, td_logfile, td_writable, td_side,
    td_args, td_pc, td_line_number, td_excited_states, td_outfile, td_stdout,
    td_exc, cg_args, cg_atoms, cg_pc, cg_grid, cg_step, cg_written, cg_err,
    ar_script, ar_args, ar_pc, ar_opened, ar_created, ar_err, st_dir,
    st_before, st_py312, st_pc, st_com_files, st_submission_commands, st_err,
    tm_fn, tm_params, tm_pc, tm_roots, tm_tau_m, xl_argv, xl_xml, xl_isfile,
    xl_pc, xl_stdout, xl_opened, xl_peaks, xl_list, xl_err, lp_listfile,
    lp_pc, lp_i, lp_peaks, lp_peaksfile, lp_err>>
lp_rest == <<fx_path, fx_file, fx_pc, fx_flags, fx_xyz, fx_err, rc_log,
    rc_session, rc_call, sp_pc, sp_files, sp_baseline, sp_fit, sp_data,
    sp_den, sp_out, sp_err, td_isfile, td_logfile, td_writable, td_side,
    td_args, td_pc, td_line_number, td_excited_states, td_outfile, td_stdout,
    td_exc, cg_args, cg_atoms, cg_pc, cg_grid, cg_step, cg_written, cg_err,
    ar_script, ar_args, ar_pc, ar_opened, ar_created, ar_err, st_dir,
    st_before, st_py312, st_pc, st_com_files, st_submission_commands, st_err,
    tm_fn, tm_params, tm_pc, tm_roots, tm_tau_m, xl_argv, xl_xml, xl_isfile,
    xl_pc, xl_stdout, xl_opened, xl_peaks, xl_list, xl_err, mc_args, mc_pc,
    mc_i, mc_commands, mc_files>>

(* --------------------------- shared helpers ---------------------------- *)
Abs(n) == IF n < 0 THEN -n ELSE n

\* int(float(x)) on a token held in tenths: truncation toward zero.
IntOfFloat(v) == IF v < 0 THEN -((-v) \div 10) ELSE v \div 10

\* A path is the sequence of its pieces; str.endswith(suffix) looks at the
\* last piece only.
EndsWith(path, suffix) == Len(path) > 0 /\ path[Len(path)] = suffix

\* dict[key] = value
DictSet(d, key, value) ==
    [k \in (DOMAIN d) \cup {key} |-> IF k = key THEN value ELSE d[k]]

EmptyDict == [k \in {} |-> 0]

\* itertools.islice(file, start, stop): the lines at 0-based positions
\* start .. stop-1, as far as the file goes.
ISlice(file, start, stop) ==
    LET hi == IF stop < Len(file) THEN stop ELSE Len(file)
    IN  IF hi <= start THEN << >> ELSE SubSeq(file, start + 1, hi)

(* ============================ fchk2xyz ================================= *)

HeaderLine(text) == [text |-> text, toks |-> << >>]
DataLine(toks) == [text |-> "", toks |-> toks]

\* Token values are held in tenths (10 is 1.0).
FchkLines ==
    { HeaderLine("Number of basis functions"),
      HeaderLine("Nuclear charges"),
      HeaderLine("Current cartesian coordinates"),
      HeaderLine("Force Field"),
      DataLine(<<10>>), DataLine(<<80, -3>>), DataLine(<<-3, 10, 25>>) }

\* fchk2xyz.parse_arguments
fchk2xyz_parse_arguments(path) ==
    IF ~EndsWith(path, ".fchk") THEN "ArgumentTypeError" ELSE "ok"

\* fchk2xyz.flag_lines: the loop from line i on
RECURSIVE FlagScan(_, _, _)
FlagScan(file, i, flags) ==
    IF i > Len(file) THEN flags
    ELSE IF file[i].text = "Number of basis functions"
         THEN FlagScan(file, i + 1, DictSet(flags, "nbasis", i))
    ELSE IF file[i].text = "Nuclear charges"
         THEN FlagScan(file, i + 1, DictSet(flags, "nuclear_charges", i))
    ELSE IF file[i].text = "Current cartesian coordinates"
         THEN FlagScan(file, i + 1, DictSet(flags, "cartesian_coords", i))
    ELSE IF file[i].text = "Force Field"
         THEN DictSet(flags, "force_field", i)
    ELSE FlagScan(file, i + 1, flags)

flag_lines(file) == FlagScan(file, 1, EmptyDict)

\* element_map.get(charge, charge)
element_map ==
    [c \in {1, 6, 7, 8, 9, 15, 16, 17, 22, 26, 27, 28, 29, 30, 35, 44, 53} |->
        CASE c = 1 -> "H" [] c = 6 -> "C" [] c = 7 -> "N" [] c = 8 -> "O"
          [] c = 9 -> "F" [] c = 15 -> "P" [] c = 16 -> "S" [] c = 17 -> "Cl"
          [] c = 22 -> "Ti" [] c = 26 -> "Fe" [] c = 27 -> "Co"
          [] c = 28 -> "Ni" [] c = 29 -> "Cu" [] c = 30 -> "Zn"
          [] c = 35 -> "Br" [] c = 44 -> "Ru" [] c = 53 -> "I"]

ElementOf(charge) ==
    IF charge \in DOMAIN element_map THEN element_map[charge]
    ELSE ToString(charge)

\* bohr_to_angs = 0.529177249 = 5291.77249e-4, applied to a value v in
\* tenths: the product in units of 1e-10, as the two limbs hi * 1e5 + lo
ToAngs(v) ==
    LET lo == Abs(v) * 77249
        hi == Abs(v) * 5291 + (lo \div 100000)
    IN  [neg |-> v < 0, hi |-> hi, lo |-> lo % 100000]

RECURSIVE Tokens(_)
\* every token of the lines, in order (list.extend per line)
Tokens(lines) ==
    IF lines = << >> THEN << >>
    ELSE Head(lines).toks \o Tokens(Tail(lines))

\* float(x) fails on the words of a header line
Numeric(lines) == \A i \in 1..Len(lines) : lines[i].text = ""

\* fchk2xyz.get_charges_coords
get_charges_coords(file, flags) ==
    IF "nuclear_charges" \notin DOMAIN flags
       \/ "cartesian_coords" \notin DOMAIN flags
    THEN [err |-> "KeyError", charges |-> << >>, coords |-> << >>]
    ELSE
    LET chlines == ISlice(file, flags["nuclear_charges"],
                          flags["cartesian_coords"] - 1)
    IN  IF ~Numeric(chlines)
        THEN [err |-> "ValueError", charges |-> << >>, coords |-> << >>]
        ELSE IF "force_field" \notin DOMAIN flags
        THEN [err |-> "KeyError", charges |-> << >>, coords |-> << >>]
        ELSE
        LET colines == ISlice(file, flags["cartesian_coords"],
                              flags["force_field"] - 1)
            chtoks == Tokens(chlines)
            cotoks == Tokens(colines)
        IN  IF ~Numeric(colines)
            THEN [err |-> "ValueError", charges |-> << >>, coords |-> << >>]
            ELSE IF Len(cotoks) # Len(chtoks) * 3
            THEN [err |-> "ValueError", charges |-> << >>, coords |-> << >>]
            ELSE [err |-> "",
                  charges |-> [i \in 1..Len(chtoks) |->
                                  ElementOf(IntOfFloat(chtoks[i]))],
                  coords |-> [i \in 1..Len(cotoks) |-> ToAngs(cotoks[i])]]

NoAngs == [neg |-> FALSE, hi |-> 0, lo |-> 0]
CountLine(n) == [kind |-> "count", n |-> n, el |-> "",
                 x |-> NoAngs, y |-> NoAngs, z |-> NoAngs]
TitleLine == [kind |-> "title", n |-> 0, el |-> "",
              x |-> NoAngs, y |-> NoAngs, z |-> NoAngs]
AtomLine(el, x, y, z) == [kind |-> "atom", n |-> 0, el |-> el,
                          x |-> x, y |-> y, z |-> z]

\* write_xyz taking the x value of every atom for its y and z as well
XyzLinesSameColumn(charges, coordinates) ==
    <<CountLine(Len(charges)), TitleLine>> \o
    [i \in 1..Len(charges) |->
        AtomLine(charges[i], coordinates[3 * (i - 1) + 1],
                 coordinates[3 * (i - 1) + 1], coordinates[3 * (i - 1) + 1])]

\* the lines that fchk2xyz.write_xyz writes
XyzLines(charges, coordinates) ==
    <<CountLine(Len(charges)), TitleLine>> \o
    [i \in 1..Len(charges) |->
        AtomLine(charges[i], coordinates[3 * (i - 1) + 1],
                 coordinates[3 * (i - 1) + 2], coordinates[3 * (i - 1) + 3])]

NoFile == <<[kind |-> "absent", n |-> 0, el |-> "",
             x |-> NoAngs, y |-> NoAngs, z |-> NoAngs]>>

\* main: args = parse_arguments()
FxParseArguments ==
    /\ fx_pc = "parse_arguments"
    /\ LET r == fchk2xyz_parse_arguments(fx_path)
       IN  IF r = "ok"
           THEN fx_pc' = "flag_lines" /\ fx_err' = fx_err
           ELSE fx_pc' = "failed" /\ fx_err' = r
    /\ UNCHANGED <<fx_path, fx_file, fx_flags, fx_xyz>>
    /\ UNCHANGED fx_rest

\* main: flags = flag_lines(args.fchkfile)
FxFlagLines ==
    /\ fx_pc = "flag_lines"
    /\ fx_flags' = flag_lines(fx_file)
    /\ fx_pc' = "write_xyz"
    /\ UNCHANGED <<fx_path, fx_file, fx_xyz, fx_err>>
    /\ UNCHANGED fx_rest

\* main: write_xyz(args.fchkfile, flags)
FxWriteXyz ==
    /\ fx_pc = "write_xyz"
    /\ LET r == get_charges_coords(fx_file, fx_flags)
       IN  IF r.err # ""
           THEN fx_pc' = "failed" /\ fx_err' = r.err /\ fx_xyz' = fx_xyz
           ELSE /\ fx_pc' = "done"
                /\ fx_err' = fx_err
                /\ fx_xyz' = XyzLines(r.charges, r.coords)
    /\ UNCHANGED <<fx_path, fx_file, fx_flags>>
    /\ UNCHANGED fx_rest

FxNext == FxParseArguments \/ FxFlagLines \/ FxWriteXyz

(* ---- properties of fchk2xyz ---- *)
MarkerLines(file, text) == {i \in 1..Len(file) : file[i].text = text}
MarkerLine(file, text) == CHOOSE i \in MarkerLines(file, text) : TRUE

\* each of the three header lines occurs once, in the order
\* Nuclear charges, Current cartesian coordinates, Force Field
HeadersInOrder(file) ==
    /\ Cardinality(MarkerLines(file, "Nuclear charges")) = 1
    /\ Cardinality(MarkerLines(file, "Current cartesian coordinates")) = 1
    /\ Cardinality(MarkerLines(file, "Force Field")) = 1
    /\ MarkerLine(file, "Nuclear charges")
         < MarkerLine(file, "Current cartesian coordinates")
    /\ MarkerLine(file, "Current cartesian coordinates")
         < MarkerLine(file, "Force Field")

Between(file, from, to) ==
    IF to - 1 < from + 1 THEN << >> ELSE SubSeq(file, from + 1, to - 1)

ChargeEntries(file) ==
    Tokens(Between(file, MarkerLine(file, "Nuclear charges"),
                   MarkerLine(file, "Current cartesian coordinates")))
CoordEntries(file) ==
    Tokens(Between(file, MarkerLine(file, "Current cartesian coordinates"),
                   MarkerLine(file, "Force Field")))

\* only numeric lines between the first and the last of the three headers
OnlyNumbersBetween(file) ==
    \A i \in 1..Len(file) :
        (/\ MarkerLine(file, "Nuclear charges") < i
         /\ i < MarkerLine(file, "Force Field")
         /\ i # MarkerLine(file, "Current cartesian coordinates"))
        => file[i].text = ""

XyzAsClaimed(file, xyz) ==
    LET ch == ChargeEntries(file)
        co == CoordEntries(file)
        N == Len(ch)
    IN  /\ Len(xyz) = N + 2
        /\ xyz[1] = CountLine(N)
        /\ xyz[2] = TitleLine
        /\ \A i \in 1..N :
              /\ 3 * i <= Len(co)
              /\ xyz[i + 2] =
                   AtomLine(ElementOf(IntOfFloat(ch[i])),
                            ToAngs(co[3 * i - 2]), ToAngs(co[3 * i - 1]),
                            ToAngs(co[3 * i]))

FxRan == fx_pc \in {"done", "failed"} /\ EndsWith(fx_path, ".fchk")

\* C1 (as stated): whenever the three headers occur in order, a finished run
\* of fchk2xyz has written the XYZ file with N, a title line and N atom
\* lines, atom i holding element i and coordinates 3i, 3i+1, 3i+2 in angstrom.
C1_AsStated ==
    (FxRan /\ HeadersInOrder(fx_file)) =>
        (fx_pc = "done" /\ XyzAsClaimed(fx_file, fx_xyz))

\* C1 (amended): the same, for files whose lines between the headers are
\* all numeric and hold exactly 3N coordinate entries for N charge entries;
\* for the other files with the headers in order the run fails with
\* ValueError and writes no XYZ file.
C1_XyzOfValidFchk ==
    (FxRan /\ HeadersInOrder(fx_file)) =>
        IF OnlyNumbersBetween(fx_file)
           /\ Len(CoordEntries(fx_file)) = 3 * Len(ChargeEntries(fx_file))
        THEN fx_pc = "done" /\ XyzAsClaimed(fx_file, fx_xyz)
        ELSE fx_pc = "failed" /\ fx_err = "ValueError" /\ fx_xyz = NoFile

\* a finished conversion of a two-atom file, one charge being unmapped
C1_Witness ==
    /\ fx_pc = "done"
    /\ HeadersInOrder(fx_file)
    /\ Len(fx_xyz) = 4
    /\ fx_xyz[3].el = "O"
    /\ fx_xyz[4].el = "0"
    /\ fx_xyz[3].y # fx_xyz[3].x

(* ================= rmCosmicRays: get_user_inputs ======================= *)
\* A Python value that is either None or a list of numbers (in tenths).
NoneVal == [none |-> TRUE, v |-> << >>]
ListVal(v) == [none |-> FALSE, v |-> v]

\* truth value of a list or None in an if
Truthy(val) == ~val.none /\ val.v # << >>

\* An input line is the sequence of its tokens after split(); a token is its
\* literal form and its value in tenths.
IntTok(n) == [lit |-> "int", v |-> 10 * n]
DecTok(v) == [lit |-> "dec", v |-> v]

\* the answers to a (y/n) question, with what strip().lower() makes of them
Answers == {"y", " Y ", "n", "yes", ""}
StripLower(a) == IF a \in {"y", " Y "} THEN "y" ELSE a

\* what the user types: the two (y/n) answers, the baseline points and the
\* toluene peaks (a word is a token that is no number)
UserInputs ==
    [ans_b : Answers,
     ent_b : { << >>, <<IntTok(1)>>, <<IntTok(0), IntTok(2)>>,
               <<DecTok(15)>> },
     ans_t : Answers,
     ent_t : { << >>, <<IntTok(1), DecTok(25)>>,
               <<[lit |-> "word", v |-> 0]>> }]

\* list(map(int, tokens)): int() accepts integer literals only
MapInt(toks) ==
    IF \E i \in 1..Len(toks) : toks[i].lit # "int"
    THEN [err |-> "ValueError", val |-> NoneVal]
    ELSE [err |-> "", val |-> ListVal([i \in 1..Len(toks) |-> toks[i].v])]

\* list(map(float, tokens)): float() accepts integer and decimal literals
MapFloat(toks) ==
    IF \E i \in 1..Len(toks) : toks[i].lit \notin {"int", "dec"}
    THEN [err |-> "ValueError", val |-> NoneVal]
    ELSE [err |-> "", val |-> ListVal([i \in 1..Len(toks) |-> toks[i].v])]

NoLog == [exists |-> FALSE, baseline_pts |-> ListVal(<< >>),
          toluene_pks |-> ListVal(<< >>)]

\* load_log that never looks at the file
load_log_fresh(log) ==
    [baseline_pts |-> ListVal(<< >>), toluene_pks |-> ListVal(<< >>)]

\* rmCosmicRays.load_log
load_log(log) ==
    IF log.exists
    THEN [baseline_pts |-> log.baseline_pts, toluene_pks |-> log.toluene_pks]
    ELSE [baseline_pts |-> ListVal(<< >>), toluene_pks |-> ListVal(<< >>)]

\* rmCosmicRays.save_log
save_log(baseline_pts, toluene_pks) ==
    [exists |-> TRUE, baseline_pts |-> baseline_pts,
     toluene_pks |-> toluene_pks]

\* rmCosmicRays.get_user_inputs, lines 67-77: the baseline points
AskBaseline(last_values, inp) ==
    IF Truthy(last_values.baseline_pts)
    THEN [prompts |-> <<"Last used baseline points",
                        "Use these baseline points? (y/n): ">>,
          err |-> "",
          val |-> IF StripLower(inp.ans_b) = "y"
                  THEN last_values.baseline_pts ELSE NoneVal]
    ELSE [prompts |-> <<"Enter baseline correction points: ">>,
          err |-> MapInt(inp.ent_b).err,
          val |-> MapInt(inp.ent_b).val]

\* rmCosmicRays.get_user_inputs, lines 79-90: the toluene peaks
AskToluene(last_values, inp) ==
    IF Truthy(last_values.toluene_pks)
    THEN [prompts |-> <<"Last used toluene peaks",
                        "Use these toluene peaks? (y/n): ">>,
          err |-> "",
          val |-> IF StripLower(inp.ans_t) = "y"
                  THEN last_values.toluene_pks ELSE NoneVal]
    ELSE [prompts |-> <<"Enter toluene peaks (pixels): ">>,
          err |-> MapFloat(inp.ent_t).err,
          val |-> MapFloat(inp.ent_t).val]

\* rmCosmicRays.get_user_inputs: what it prompts, returns and leaves in the
\* log file, given the log file it finds and the user's input
get_user_inputs(log, inp) ==
    LET last_values == load_log(log)
        b == AskBaseline(last_values, inp)
        t == AskToluene(last_values, inp)
    IN  IF b.err # ""
        THEN [prompts |-> b.prompts, err |-> b.err,
              baseline_pts |-> NoneVal, toluene_pks |-> NoneVal,
              log |-> log]
        ELSE IF t.err # ""
        THEN [prompts |-> b.prompts \o t.prompts, err |-> t.err,
              baseline_pts |-> NoneVal, toluene_pks |-> NoneVal,
              log |-> log]
        ELSE [prompts |-> b.prompts \o t.prompts, err |-> "",
              baseline_pts |-> b.val, toluene_pks |-> t.val,
              log |-> save_log(b.val, t.val)]

NoCall == [before |-> NoLog,
           inp |-> [ans_b |-> "", ent_b |-> << >>,
                    ans_t |-> "", ent_t |-> << >>],
           out |-> [prompts |-> << >>, err |-> "",
                    baseline_pts |-> NoneVal, toluene_pks |-> NoneVal,
                    log |-> NoLog]]

\* one invocation of the script up to the return of get_user_inputs
RcGetUserInputs(inp) ==
    /\ rc_session < MaxSessions
    /\ LET out == get_user_inputs(rc_log, inp)
       IN  /\ rc_call' = [before |-> rc_log, inp |-> inp, out |-> out]
           /\ rc_log' = out.log
    /\ rc_session' = rc_session + 1
    /\ UNCHANGED rc_rest

RcNext == \E inp \in UserInputs : RcGetUserInputs(inp)

(* ---- properties of get_user_inputs ---- *)
RcReturned == rc_session > 0 /\ rc_call.out.err = ""

\* what the invocation shows and returns
Observed(out) == <<out.prompts, out.err, out.baseline_pts, out.toluene_pks>>

\* C2 (as stated): what an invocation prompts for and returns is what the
\* same user input gives when no earlier invocation has written anything.
C2_AsStated ==
    rc_session > 0 =>
        Observed(rc_call.out) = Observed(get_user_inputs(NoLog, rc_call.inp))

\* C2 (amended): an invocation depends on earlier ones through
\* last_values.json only.  An item that the file does not hold, or holds
\* empty or null, is prompted for and returned as in a first invocation; an
\* item the file holds non-empty is offered for reuse instead of being asked
\* for, and every returning invocation leaves its return values in the file.
C2_DependsOnLogOnly ==
    rc_session > 0 =>
        LET before == rc_call.before
            out == rc_call.out
            fresh == get_user_inputs(NoLog, rc_call.inp)
        IN  /\ (~Truthy(before.baseline_pts) /\ ~Truthy(before.toluene_pks))
                 => Observed(out) = Observed(fresh)
            /\ Truthy(before.baseline_pts)
                 => /\ out.prompts[2] = "Use these baseline points? (y/n): "
                    /\ out.prompts # fresh.prompts
            /\ (Truthy(before.toluene_pks) /\ out.err = "")
                 => out.prompts[Len(out.prompts)]
                      = "Use these toluene peaks? (y/n): "
            /\ out.err = ""
                 => /\ rc_log.exists
                    /\ rc_log.baseline_pts = out.baseline_pts
                    /\ rc_log.toluene_pks = out.toluene_pks
            /\ out.err # "" => rc_log = before

\* a later invocation that offers the values an earlier one stored
C2_Witness ==
    /\ rc_session = 2
    /\ Truthy(rc_call.before.baseline_pts)
    /\ Truthy(rc_call.before.toluene_pks)
    /\ rc_call.out.baseline_pts = rc_call.before.baseline_pts
    /\ rc_call.out.err = ""

StoredOrEntered(stored, answer, entered, returned) ==
    IF Truthy(stored) /\ StripLower(answer) = "y"
    THEN returned = stored
    ELSE ~returned.none /\ returned = entered

\* C5: get_user_inputs returns, for the baseline points and for the toluene
\* peaks, the stored values when they exist and the user accepts them, and
\* otherwise the values the user entered in this session.
C5_StoredOrEntered ==
    RcReturned =>
        /\ StoredOrEntered(rc_call.before.baseline_pts, rc_call.inp.ans_b,
                           MapInt(rc_call.inp.ent_b).val,
                           rc_call.out.baseline_pts)
        /\ StoredOrEntered(rc_call.before.toluene_pks, rc_call.inp.ans_t,
                           MapFloat(rc_call.inp.ent_t).val,
                           rc_call.out.toluene_pks)

(* ================= rmCosmicRays: spectra processing ==================== *)
RECURSIVE Factorial(_)
Factorial(n) == IF n <= 1 THEN 1 ELSE n * Factorial(n - 1)

RECURSIVE SumTo(_, _)
\* f[1] + ... + f[n]
SumTo(f, n) == IF n = 0 THEN 0 ELSE f[n] + SumTo(f, n - 1)

\* Intensities read from the last comma-separated field of a line.
Intensities == {0, 3}

\* strictly increasing pixel positions (0-based) within px pixels
IncreasingPoints(px) ==
    { b \in UNION { [1..k -> 0..(px - 1)] : k \in 1..px } :
        \A i \in 1..(Len(b) - 1) : b[i] < b[i + 1] }

\* Values of spectra_data are numerators over the denominator sp_den.  Linear
\* interpolation between baseline points divides by a gap of less than
\* MaxPixels, so InterpDen clears every such division.
InterpDen == Factorial(MaxPixels)

\* rmCosmicRays.load_spectra: shape (pixels, files + 1), last column zero
load_spectra(files) ==
    LET px == Len(files[1])
        n == Len(files)
    IN  [r \in 1..px |-> [c \in 1..(n + 1) |->
            IF c <= n THEN files[c][r] ELSE 0]]

\* np.interp(x, xp, fp) times InterpDen; xp is increasing
Interp(x, xp, fp) ==
    IF x <= xp[1] THEN fp[1] * InterpDen
    ELSE IF x >= xp[Len(xp)] THEN fp[Len(xp)] * InterpDen
    ELSE LET j == CHOOSE k \in 1..(Len(xp) - 1) : xp[k] <= x /\ x < xp[k + 1]
         IN  fp[j] * InterpDen
             + ((fp[j + 1] - fp[j]) * (x - xp[j]) * InterpDen)
                 \div (xp[j + 1] - xp[j])

\* rmCosmicRays.baseline_correct; the result is over InterpDen
baseline_correct(data, baseline_pts) ==
    LET n == Len(data[1]) - 1
        baselines == [k \in 1..Len(baseline_pts) |-> data[baseline_pts[k] + 1]]
    IN  [r \in 1..Len(data) |-> [c \in 1..(n + 1) |->
            IF c <= n
            THEN data[r][c] * InterpDen
                 - Interp(r - 1, baseline_pts,
                          [k \in 1..Len(baseline_pts) |-> baselines[k][c]])
            ELSE data[r][c] * InterpDen]]

RowSumSq(row, n) == SumTo([c \in 1..n |-> row[c] * row[c]], n)

\* value >= mean + std over the n spectra of the row, in exact arithmetic:
\* n*v - S >= sqrt(n*Q - S*S)
IsCosmic(row, n, v) ==
    LET S == SumTo(row, n)
        Q == RowSumSq(row, n)
    IN  n * v - S >= 0 /\ (n * v - S) * (n * v - S) >= n * Q - S * S

\* rmCosmicRays.remove_cosmic_rays; the denominator grows by the factor n
remove_cosmic_rays(data) ==
    LET n == Len(data[1]) - 1
    IN  [r \in 1..Len(data) |-> [c \in 1..(n + 1) |->
            IF c <= n
            THEN IF IsCosmic(data[r], n, data[r][c])
                 THEN SumTo(data[r], n)
                 ELSE n * data[r][c]
            ELSE SumTo(data[r], n)]]

\* f"{num/den:.6f}": the value rounded to six decimals, half to even, in
\* units of 1e-6
Fmt6(num, den) ==
    LET q == (Abs(num) * 1000000) \div den
        r == (Abs(num) * 1000000) % den
        up == 2 * r > den \/ (2 * r = den /\ q % 2 = 1)
        m == IF up THEN q + 1 ELSE q
    IN  IF num < 0 THEN -m ELSE m

\* rmCosmicRays.save_corrected_spectra: the lines of every file written
save_corrected_spectra(n, data, den, fit) ==
    LET wavenumber(r) == (r - 1) * fit.slope + fit.intercept
    IN  [corrected |-> [f \in 1..n |-> [r \in 1..Len(data) |->
                          <<wavenumber(r), Fmt6(data[r][f], den)>>]],
         averaged |-> [r \in 1..Len(data) |->
                          <<wavenumber(r), Fmt6(data[r][n + 1], den)>>]]

NoSpectraOut == [corrected |-> << >>, averaged |-> << >>]

\* main: spectra_data = load_spectra(spectra_files)
SpLoadSpectra ==
    /\ sp_pc = "load_spectra"
    /\ IF sp_files = << >>
       THEN sp_pc' = "failed" /\ sp_err' = "IndexError" /\ sp_data' = sp_data
       ELSE /\ sp_pc' = "baseline_correct"
            /\ sp_data' = load_spectra(sp_files)
            /\ sp_err' = sp_err
    /\ UNCHANGED <<sp_files, sp_baseline, sp_fit, sp_den, sp_out>>
    /\ UNCHANGED sp_rest

\* main: corrected_data = baseline_correct(spectra_data, baseline_points)
SpBaselineCorrect ==
    /\ sp_pc = "baseline_correct"
    /\ sp_data' = baseline_correct(sp_data, sp_baseline)
    /\ sp_den' = sp_den * InterpDen
    /\ sp_pc' = "remove_cosmic_rays"
    /\ UNCHANGED <<sp_files, sp_baseline, sp_fit, sp_out, sp_err>>
    /\ UNCHANGED sp_rest

\* main: cleaned_data = remove_cosmic_rays(corrected_data)
SpRemoveCosmicRays ==
    /\ sp_pc = "remove_cosmic_rays"
    /\ sp_data' = remove_cosmic_rays(sp_data)
    /\ sp_den' = sp_den * Len(sp_files)
    /\ sp_pc' = "save_corrected_spectra"
    /\ UNCHANGED <<sp_files, sp_baseline, sp_fit, sp_out, sp_err>>
    /\ UNCHANGED sp_rest

\* main: toluene_correction and save_corrected_spectra
SpSaveCorrectedSpectra ==
    /\ sp_pc = "save_corrected_spectra"
    /\ sp_out' = save_corrected_spectra(Len(sp_files), sp_data, sp_den, sp_fit)
    /\ sp_pc' = "done"
    /\ UNCHANGED <<sp_files, sp_baseline, sp_fit, sp_data, sp_den, sp_err>>
    /\ UNCHANGED sp_rest

SpNext ==
    \/ SpLoadSpectra
    \/ SpBaselineCorrect
    \/ SpRemoveCosmicRays
    \/ SpSaveCorrectedSpectra

(* ---- properties of the spectra processing ---- *)
\* C6: at every pixel the value written to averaged_corrected_spectrum.dat
\* is the mean, over the spectra, of the corrected values that go to the
\* '-corrected.dat' files.
C6_AverageOfCorrected ==
    sp_pc = "done" =>
        LET n == Len(sp_files)
        IN  \A r \in 1..Len(sp_data) :
              sp_out.averaged[r][2]
                = Fmt6(SumTo(sp_data[r], n), n * sp_den)

(* ============================ analyzeTDDFT ============================= *)
EXCITED == "Excited State"

\* A line of the log is the marker it contains ('Excited State', '->' or
\* none), the number ntok of its tokens, and for an 'Excited State' line
\* the values of its tokens 2 (state index), 6 (nm) and 8 (f=...).
OtherLine == [text |-> "", t2 |-> 0, t6 |-> 0, t8 |-> 0, ntok |-> 0]

\* complete 'Excited State' lines, one cut short after the index, an
\* orbital line 'occ -> virt coeff', one without its coefficient, and a
\* line of other text
LogLines ==
    { [text |-> EXCITED, t2 |-> k, t6 |-> w, t8 |-> f, ntok |-> 10] :
        k \in {1, 2}, w \in {49, 50, 150, 151}, f \in {0, 1} }
    \cup { [text |-> EXCITED, t2 |-> 1, t6 |-> 0, t8 |-> 0, ntok |-> 3],
           [text |-> "->", t2 |-> 0, t6 |-> 0, t8 |-> 0, ntok |-> 4],
           [text |-> "->", t2 |-> 0, t6 |-> 0, t8 |-> 0, ntok |-> 3],
           OtherLine }

\* exceptions are their class and their message
NoExc == [type |-> "", msg |-> ""]
IndexError == [type |-> "IndexError", msg |-> "list index out of range"]

\* get_excited_states with the lower wavelength bound exclusive
get_excited_states_strict(line, line_number, wavenum_min, wavenum_max, oscillator_min, excited_states) ==
    IF line.t6 > wavenum_min /\ line.t6 <= wavenum_max
       /\ line.t8 >= oscillator_min
    THEN DictSet(excited_states, line.t2, line_number)
    ELSE excited_states

\* analyzeTDDFT.get_excited_states
get_excited_states(line, line_number, wavenum_min, wavenum_max, oscillator_min, excited_states) ==
    IF line.t6 >= wavenum_min /\ line.t6 <= wavenum_max
       /\ line.t8 >= oscillator_min
    THEN DictSet(excited_states, line.t2, line_number)
    ELSE excited_states

NoOutfile == [exists |-> FALSE, states |-> << >>]

\* read_logfile: open(logfile, 'r') of a file that does not exist
TdNoLogfile ==
    /\ td_pc = "read_logfile"
    /\ ~td_isfile
    /\ td_exc' = [type |-> "FileNotFoundError",
                  msg |-> "[Errno 2] No such file or directory"]
    /\ td_pc' = "except"
    /\ UNCHANGED <<td_isfile, td_logfile, td_writable, td_side, td_args,
                   td_line_number, td_excited_states, td_outfile, td_stdout>>
    /\ UNCHANGED td_rest

\* read_logfile: one turn of the loop over enumerate(file, 1); line[6] of
\* an 'Excited State' line of fewer than seven tokens raises
TdReadLine ==
    /\ td_pc = "read_logfile"
    /\ td_isfile
    /\ td_line_number <= Len(td_logfile)
    /\ LET line == td_logfile[td_line_number]
       IN  IF line.text = EXCITED /\ line.ntok < 9
           THEN /\ td_exc' = IndexError
                /\ td_pc' = "except"
                /\ UNCHANGED <<td_excited_states, td_line_number>>
           ELSE /\ td_excited_states' =
                     IF line.text = EXCITED
                     THEN get_excited_states(line, td_line_number,
                                             td_args.nm_min, td_args.nm_max,
                                             td_args.osc_min,
                                             td_excited_states)
                     ELSE td_excited_states
                /\ td_line_number' = td_line_number + 1
                /\ UNCHANGED <<td_exc, td_pc>>
    /\ UNCHANGED <<td_isfile, td_logfile, td_writable, td_side, td_args,
                   td_outfile, td_stdout>>
    /\ UNCHANGED td_rest

\* read_logfile: return excited_states
TdReturn ==
    /\ td_pc = "read_logfile"
    /\ td_isfile
    /\ td_line_number > Len(td_logfile)
    /\ td_pc' = "returned"
    /\ UNCHANGED <<td_isfile, td_logfile, td_writable, td_side, td_args,
                   td_line_number, td_excited_states, td_outfile, td_stdout,
                   td_exc>>
    /\ UNCHANGED td_rest

\* list(excited_states.values()): a dict keeps its keys in the order of
\* their first insertion, and a key is first inserted at the first line
\* that get_excited_states stores for it
line_numbers(logfile, args, excited_states) ==
    LET keys == DOMAIN excited_states
        stored(k) ==
            { n \in 1..Len(logfile) :
                /\ logfile[n].text = EXCITED
                /\ k \in DOMAIN get_excited_states(
                                   logfile[n], n, args.nm_min, args.nm_max,
                                   args.osc_min, EmptyDict) }
        first(k) == CHOOSE n \in stored(k) : \A m \in stored(k) : n <= m
        order == CHOOSE s \in [1..Cardinality(keys) -> keys] :
                    \A i, j \in 1..Cardinality(keys) :
                        i < j => first(s[i]) < first(s[j])
    IN  [i \in 1..Cardinality(keys) |-> excited_states[order[i]]]

\* write_output, the lines read after line number n: range(1, max_iter)
\* up to the first 'Excited State' line, max_iter being the distance to
\* the next stored line number or 500 (HEAD), or 100 (7e12067)
ScannedLines(side, logfile, numbers, j) ==
    LET n == numbers[j]
        max_iter == IF side = "HEAD"
                    THEN IF j < Len(numbers) THEN numbers[j + 1] - n ELSE 500
                    ELSE 100
    IN  { m \in (n + 1)..Len(logfile) :
            /\ m - n < max_iter
            /\ \A q \in (n + 1)..(m - 1) : logfile[q].text # EXCITED }

RECURSIVE write_output(_, _, _, _, _)
\* analyzeTDDFT.write_output from the j-th line number on: the states
\* written to the output file, what is printed, and the exception that
\* get_orbitals raises at line[3] of an orbital line of three tokens.
\* HEAD writes a state after its orbitals are read; 7e12067 writes it
\* before and prints the orbitals five times.
write_output(side, logfile, numbers, j, done) ==
    IF j > Len(numbers) THEN done
    ELSE LET raises == \E m \in ScannedLines(side, logfile, numbers, j) :
                          logfile[m].text = "->" /\ logfile[m].ntok < 4
             state == logfile[numbers[j]].t2
         IN  IF side = "HEAD"
             THEN IF raises THEN [done EXCEPT !.exc = IndexError]
                  ELSE write_output(side, logfile, numbers, j + 1,
                         [done EXCEPT !.states = Append(@, state)])
             ELSE IF raises
                  THEN [done EXCEPT !.states = Append(@, state),
                                    !.exc = IndexError]
                  ELSE write_output(side, logfile, numbers, j + 1,
                         [done EXCEPT
                            !.states = Append(@, state),
                            !.stdout = @ \o [i \in 1..5 |-> <<"orbitals">>]])

\* main: write_output(args.logfile, excited_states)
TdWriteOutput ==
    /\ td_pc = "returned"
    /\ IF ~td_writable
       THEN /\ td_exc' = [type |-> "PermissionError",
                          msg |-> "[Errno 13] Permission denied"]
            /\ td_pc' = "except"
            /\ UNCHANGED <<td_outfile, td_stdout>>
       ELSE LET r == write_output(
                       td_side, td_logfile,
                       line_numbers(td_logfile, td_args, td_excited_states),
                       1, [states |-> << >>, stdout |-> << >>,
                           exc |-> NoExc])
            IN  /\ td_outfile' = [exists |-> TRUE, states |-> r.states]
                /\ td_stdout' = td_stdout \o r.stdout
                /\ td_exc' = r.exc
                /\ td_pc' = IF r.exc = NoExc THEN "done" ELSE "except"
    /\ UNCHANGED <<td_isfile, td_logfile, td_writable, td_side, td_args,
                   td_line_number, td_excited_states>>
    /\ UNCHANGED td_rest

\* except Exception: the classes that the handler lets through
main_except_oserror(exc) ==
    exc.type \in {"FileNotFoundError", "PermissionError"}

\* main, 'except Exception as e': whether the handler takes the exception
main_except(exc) ==
    exc.type \in {"FileNotFoundError", "PermissionError", "IndexError"}

\* main: print(f"Error: {e}") in the handler, or the exception leaves main
TdExcept ==
    /\ td_pc = "except"
    /\ IF main_except(td_exc)
       THEN /\ td_stdout' = Append(td_stdout, <<"Error: ", td_exc.msg>>)
            /\ td_pc' = "done"
       ELSE /\ td_pc' = "crashed"
            /\ UNCHANGED td_stdout
    /\ UNCHANGED <<td_isfile, td_logfile, td_writable, td_side, td_args,
                   td_line_number, td_excited_states, td_outfile, td_exc>>
    /\ UNCHANGED td_rest

TdNext ==
    \/ TdNoLogfile
    \/ TdReadLine
    \/ TdReturn
    \/ TdWriteOutput
    \/ TdExcept

(* ---- properties of read_logfile ---- *)
\* the numbers of the 'Excited State' lines of index k within the bounds
LinesOfInterest(k) ==
    { n \in 1..Len(td_logfile) :
        /\ td_logfile[n].text = EXCITED
        /\ td_logfile[n].t2 = k
        /\ td_args.nm_min <= td_logfile[n].t6
        /\ td_logfile[n].t6 <= td_args.nm_max
        /\ td_logfile[n].t8 >= td_args.osc_min }

\* C7: read_logfile returns a mapping in which k is a key exactly when some
\* 'Excited State' line of index k lies within the inclusive bounds, the
\* value of k being the 1-based number of such a line; other lines add no
\* entry.
C7_ExcitedStatesOfInterest ==
    td_pc = "returned" =>
        /\ \A k \in {0, 1, 2} :
             k \in DOMAIN td_excited_states <=> LinesOfInterest(k) # {}
        /\ \A k \in DOMAIN td_excited_states :
             td_excited_states[k] \in LinesOfInterest(k)

\* a returned mapping with an entry from a line on both inclusive bounds,
\* next to a line that is not an 'Excited State' line
C7_Witness ==
    /\ td_pc = "returned"
    /\ 1 \in DOMAIN td_excited_states
    /\ td_logfile[td_excited_states[1]].t6 = td_args.nm_min
    /\ td_logfile[td_excited_states[1]].t8 = td_args.osc_min
    /\ \E n \in 1..Len(td_logfile) : td_logfile[n] = OtherLine
    /\ \E n \in 1..Len(td_logfile) : td_logfile[n].t6 = 151

(* ---- properties of main ---- *)
\* C11: every exception raised while the log file is read or the output
\* file is written is caught in main and reported by printing
\* 'Error: <message>'; none leaves main, and the run then ends.
C11_ExceptionsReported ==
    /\ td_pc # "crashed"
    /\ td_pc = "except" => td_exc # NoExc /\ ENABLED TdExcept
    /\ (td_pc = "done" /\ td_exc # NoExc) =>
          /\ td_stdout # << >>
          /\ td_stdout[Len(td_stdout)] = <<"Error: ", td_exc.msg>>
          /\ ~ENABLED TdNext

\* a run of the 7e12067 side in which get_orbitals raised after one state
\* was written and its orbitals printed, and main reported the exception
C11_Witness ==
    /\ td_pc = "done"
    /\ td_exc = IndexError
    /\ td_outfile.exists
    /\ Len(td_outfile.states) = 2
    /\ Len(td_stdout) = 6
    /\ td_stdout[6] = <<"Error: ", "list index out of range">>

(* ============================ cubeGridGen ============================== *)

DefaultPts == 175

CubeArgs ==
    [xyzfile : { <<"mol", ".xyz">>, <<"mol", ".xyz", ".txt">> }, pad : {0, 2},
     nx : 0..MaxPartitions, ny : 0..MaxPartitions, nz : 0..MaxPartitions,
     pts : {0, DefaultPts}]

\* cubeGridGen.parse_arguments; xpts, ypts and zpts all have the value pts
cubeGridGen_parse_arguments(a) ==
    IF ~EndsWith(a.xyzfile, ".xyz") THEN "parser.error"
    ELSE IF a.nx < 1 \/ a.ny < 1 \/ a.nz < 1 \/ a.pts < 1
    THEN "parser.error"
    ELSE "ok"

MinOf(S) == CHOOSE m \in S : \A e \in S : m <= e
MaxOf(S) == CHOOSE m \in S : \A e \in S : m >= e

\* cubeGridGen.get_min_max_coords, xpad = ypad = zpad = pad
get_min_max_coords(atoms, pad) ==
    LET xs == {atoms[i].x : i \in 1..Len(atoms)}
        ys == {atoms[i].y : i \in 1..Len(atoms)}
        zs == {atoms[i].z : i \in 1..Len(atoms)}
    IN  [min |-> <<MinOf(xs) - pad, MinOf(ys) - pad, MinOf(zs) - pad>>,
         max |-> <<MaxOf(xs) + pad, MaxOf(ys) + pad, MaxOf(zs) + pad>>]

\* np.delete(np.linspace(lo, hi, n), n - 1): the points lo + i*(hi-lo)/(n-1)
\* for i = 0 .. n-2, each kept as its numerator over n - 1
LinspaceButLast(lo, hi, n) ==
    [i \in 1..(n - 1) |-> lo * (n - 1) + (i - 1) * (hi - lo)]

\* itertools.product(x_grid, y_grid, z_grid): the last factor runs fastest
Product3(xg, yg, zg) ==
    [k \in 1..(Len(xg) * Len(yg) * Len(zg)) |->
        <<xg[((k - 1) \div (Len(yg) * Len(zg))) + 1],
          yg[(((k - 1) \div Len(zg)) % Len(yg)) + 1],
          zg[((k - 1) % Len(zg)) + 1]>>]

\* generate_grid whose x, y and z grids keep the last linspace point
generate_grid_keep_last(box, nx, ny, nz) ==
    IF nx = 1 \/ ny = 1 \/ nz = 1
    THEN [err |-> "ZeroDivisionError", step |-> <<0, 0, 0>>, grid |-> << >>]
    ELSE LET grid == Product3(
                 [i \in 1..nx |-> box.min[1] * (nx - 1)
                                   + (i - 1) * (box.max[1] - box.min[1])],
                 [i \in 1..ny |-> box.min[2] * (ny - 1)
                                   + (i - 1) * (box.max[2] - box.min[2])],
                 [i \in 1..nz |-> box.min[3] * (nz - 1)
                                   + (i - 1) * (box.max[3] - box.min[3])])
         IN  IF Len(grid) # (nx - 1) * (ny - 1) * (nz - 1)
             THEN [err |-> "ValueError", step |-> <<0, 0, 0>>,
                   grid |-> << >>]
             ELSE [err |-> "", grid |-> grid,
                   step |-> <<box.max[1] - box.min[1],
                              box.max[2] - box.min[2],
                              box.max[3] - box.min[3]>>]

\* cubeGridGen.generate_grid; dx, dy, dz are the numerators over nx-1, ny-1
\* and nz-1
generate_grid(box, nx, ny, nz) ==
    IF nx = 1 \/ ny = 1 \/ nz = 1
    THEN [err |-> "ZeroDivisionError", step |-> <<0, 0, 0>>, grid |-> << >>]
    ELSE LET grid == Product3(LinspaceButLast(box.min[1], box.max[1], nx),
                              LinspaceButLast(box.min[2], box.max[2], ny),
                              LinspaceButLast(box.min[3], box.max[3], nz))
         IN  IF Len(grid) # (nx - 1) * (ny - 1) * (nz - 1)
             THEN [err |-> "ValueError", step |-> <<0, 0, 0>>,
                   grid |-> << >>]
             ELSE [err |-> "", grid |-> grid,
                   step |-> <<box.max[1] - box.min[1],
                              box.max[2] - box.min[2],
                              box.max[3] - box.min[3]>>]

\* main: args = parse_arguments()
CgParseArguments ==
    /\ cg_pc = "parse_arguments"
    /\ LET r == cubeGridGen_parse_arguments(cg_args)
       IN  IF r = "ok"
           THEN cg_pc' = "generate_grid" /\ cg_err' = cg_err
           ELSE cg_pc' = "failed" /\ cg_err' = r
    /\ UNCHANGED <<cg_args, cg_atoms, cg_grid, cg_step, cg_written>>
    /\ UNCHANGED cg_rest

\* main: get_xyz_coords, get_min_max_coords, generate_grid
CgGenerateGrid ==
    /\ cg_pc = "generate_grid"
    /\ LET r == generate_grid(get_min_max_coords(cg_atoms, cg_args.pad),
                              cg_args.nx, cg_args.ny, cg_args.nz)
       IN  /\ cg_grid' = r.grid
           /\ cg_step' = r.step
           /\ IF r.err = ""
              THEN cg_pc' = "generate_input_files" /\ cg_err' = cg_err
              ELSE cg_pc' = "failed" /\ cg_err' = r.err
    /\ UNCHANGED <<cg_args, cg_atoms, cg_written>>
    /\ UNCHANGED cg_rest

\* generate_input_files: one turn of the loop over enumerate(grid, 1)
CgWriteInputFile ==
    /\ cg_pc = "generate_input_files"
    /\ LET num == Cardinality(DOMAIN cg_written) + 1
       IN  /\ num <= Len(cg_grid)
           /\ cg_written' =
                DictSet(cg_written, num,
                        [origin |-> cg_grid[num], pts |-> cg_args.pts,
                         step |-> cg_step])
    /\ UNCHANGED <<cg_args, cg_atoms, cg_pc, cg_grid, cg_step, cg_err>>
    /\ UNCHANGED cg_rest

\* generate_input_files: the loop is over
CgDone ==
    /\ cg_pc = "generate_input_files"
    /\ Cardinality(DOMAIN cg_written) = Len(cg_grid)
    /\ cg_pc' = "done"
    /\ UNCHANGED <<cg_args, cg_atoms, cg_grid, cg_step, cg_written, cg_err>>
    /\ UNCHANGED cg_rest

CgNext == CgParseArguments \/ CgGenerateGrid \/ CgWriteInputFile \/ CgDone

(* ---- properties of cubeGridGen ---- *)
CubeCount == (cg_args.nx - 1) * (cg_args.ny - 1) * (cg_args.nz - 1)

\* the origin of the cube with 0-based indices i, j, k
CubeOrigin(i, j, k) ==
    LET box == get_min_max_coords(cg_atoms, cg_args.pad)
    IN  <<box.min[1] * (cg_args.nx - 1) + i * (box.max[1] - box.min[1]),
          box.min[2] * (cg_args.ny - 1) + j * (box.max[2] - box.min[2]),
          box.min[3] * (cg_args.nz - 1) + k * (box.max[3] - box.min[3])>>

ExpectedSuffix(script) ==
    CASE script = "bind2com" -> ".bind"
      [] script = "fchk2xyz" -> ".fchk"
      [] script = "cubeGridGen" -> ".xyz"
      [] script = "list2peaks" -> ".list"
      [] script = "svdAnalysis" -> ".csv"
      [] script = "tmSolver" -> ".dat"

\* the command line: the file argument, whether that file exists, and for
\* cubeGridGen the value n of --nx, --ny and --nz
CommandLines ==
    [path : { <<"f", e>> : e \in {".bind", ".fchk", ".xyz", ".list", ".csv",
                                  ".dat", ".txt"} }
            \cup { <<"f">>, <<"f", ".dat", ".bak">>, <<"f", ".csv", ".dat">> },
     isfile : BOOLEAN,
     n : {0, 4}]

\* bind2com.parse_arguments
bind2com_parse_arguments(path) ==
    IF ~EndsWith(path, ".bind") THEN "ArgumentTypeError" ELSE "ok"

\* list2peaks.parse_arguments
list2peaks_parse_arguments(path) ==
    IF ~EndsWith(path, ".list") THEN "parser.error" ELSE "ok"

\* svdAnalysis.parse_arguments without the suffix test
svdAnalysis_parse_arguments_any(path) == "ok"

\* svdAnalysis.parse_arguments
svdAnalysis_parse_arguments(path) ==
    IF ~EndsWith(path, ".csv") THEN "ValueError" ELSE "ok"

\* tmSolver.parse_arguments
tmSolver_parse_arguments(path, isfile) ==
    IF ~EndsWith(path, ".dat") THEN "parser.error"
    ELSE IF ~isfile THEN "parser.error"
    ELSE "ok"

\* path with its last piece replaced
WithSuffix(path, suffix) ==
    IF path = << >> THEN <<suffix>>
    ELSE SubSeq(path, 1, Len(path) - 1) \o <<suffix>>

\* the files each main writes once its input is processed
OutputsOf(script, path) ==
    CASE script = "bind2com" -> {WithSuffix(path, ".com")}
      [] script = "fchk2xyz" -> {WithSuffix(path, ".xyz")}
      [] script = "cubeGridGen" -> {<<"inp_cube_", "1", ".dat">>}
      [] script = "list2peaks" -> {<<"out", ".peaks">>}
      [] script = "svdAnalysis" -> {WithSuffix(path, "-vt-matrix.csv")}
      [] script = "tmSolver" -> {WithSuffix(path, "-tm-eqn2.out"),
                                 WithSuffix(path, "-tm-eqn3.out")}

\* main: args = parse_arguments(), with the outcome r of the script's parser
ArParsed(r) ==
    /\ ar_pc = "parse_arguments"
    /\ IF r = "ok"
       THEN ar_pc' = "read_input" /\ ar_err' = ar_err
       ELSE ar_pc' = "failed" /\ ar_err' = r
    /\ UNCHANGED <<ar_script, ar_args, ar_opened, ar_created>>
    /\ UNCHANGED ar_rest

ArParseBind2com ==
    /\ ar_script = "bind2com"
    /\ ArParsed(bind2com_parse_arguments(ar_args.path))

ArParseFchk2xyz ==
    /\ ar_script = "fchk2xyz"
    /\ ArParsed(fchk2xyz_parse_arguments(ar_args.path))

ArParseCubeGridGen ==
    /\ ar_script = "cubeGridGen"
    /\ ArParsed(cubeGridGen_parse_arguments(
                  [xyzfile |-> ar_args.path, pad |-> 2, nx |-> ar_args.n,
                   ny |-> ar_args.n, nz |-> ar_args.n, pts |-> DefaultPts]))

ArParseList2peaks ==
    /\ ar_script = "list2peaks"
    /\ ArParsed(list2peaks_parse_arguments(ar_args.path))

ArParseSvdAnalysis ==
    /\ ar_script = "svdAnalysis"
    /\ ArParsed(svdAnalysis_parse_arguments(ar_args.path))

ArParseTmSolver ==
    /\ ar_script = "tmSolver"
    /\ ArParsed(tmSolver_parse_arguments(ar_args.path, ar_args.isfile))

\* main after parse_arguments: the input file is opened and read; the file
\* may be missing, and its content may make the processing raise
ArReadInput(valid) ==
    /\ ar_pc = "read_input"
    /\ IF ~ar_args.isfile
       THEN /\ ar_pc' = "failed"
            /\ ar_err' = "FileNotFoundError"
            /\ ar_opened' = ar_opened
       ELSE /\ ar_opened' = ar_opened \cup {ar_args.path}
            /\ IF valid
               THEN ar_pc' = "write_output" /\ ar_err' = ar_err
               ELSE ar_pc' = "failed" /\ ar_err' = "ValueError"
    /\ UNCHANGED <<ar_script, ar_args, ar_created>>
    /\ UNCHANGED ar_rest

\* main: the output files are written
ArWriteOutput ==
    /\ ar_pc = "write_output"
    /\ ar_created' = OutputsOf(ar_script, ar_args.path)
    /\ ar_pc' = "done"
    /\ UNCHANGED <<ar_script, ar_args, ar_opened, ar_err>>
    /\ UNCHANGED ar_rest

ArNext ==
    \/ ArParseBind2com
    \/ ArParseFchk2xyz
    \/ ArParseCubeGridGen
    \/ ArParseList2peaks
    \/ ArParseSvdAnalysis
    \/ ArParseTmSolver
    \/ \E valid \in BOOLEAN : ArReadInput(valid)
    \/ ArWriteOutput

(* ---- properties of the argument parsing ---- *)
\* C3: each of the six scripts rejects an input path without its suffix in
\* parse_arguments: the run fails with nothing opened and nothing written.
C3_WrongSuffixRejected ==
    (ar_pc \notin {"idle", "parse_arguments"}
     /\ ~EndsWith(ar_args.path, ExpectedSuffix(ar_script))) =>
        /\ ar_pc = "failed"
        /\ ar_err \in {"ArgumentTypeError", "parser.error", "ValueError"}
        /\ ar_opened = {}
        /\ ar_created = {}

\* svdAnalysis rejecting an existing file whose name only contains .csv
C3_Witness ==
    /\ ar_script = "svdAnalysis"
    /\ ar_args.path = <<"f", ".csv", ".dat">>
    /\ ar_args.isfile
    /\ ar_pc = "failed"
    /\ ar_err = "ValueError"

(* ========================= setTDDFTfromDFTB ============================ *)
CLUSTER == "henry"
QUEUE == "single_chassis"
PREFIX == "dmonoCA_slab_tarj_"

\* A file is a record of its kind, its paragraphs (the text between blank
\* lines, each a sequence of lines), the job it belongs to and, for
\* suball.sh, its lines.
GaussianInput(paras, job) ==
    [kind |-> "gaussian", paras |-> paras, job |-> job, cmds |-> << >>]

\* every order in which os.listdir may give the names of S
Orderings(S) ==
    { s \in [1..Cardinality(S) -> S] :
        \A i, j \in 1..Cardinality(S) : i # j => s[i] # s[j] }

\* setTDDFTfromDFTB.get_input_files: the names it selects
get_input_files(dir, prefix) ==
    { f \in DOMAIN dir :
        (\E i \in 1..Len(f) : f[i] = prefix) /\ EndsWith(f, ".com") }

\* file_name[:-4] of a name ending in .com
JobName(file_name) == SubSeq(file_name, 1, Len(file_name) - 1)

\* setTDDFTfromDFTB.get_coordinates: the third paragraph without its first
\* line
get_coordinates(content) ==
    IF Len(content.paras) < 3
    THEN [err |-> "IndexError", lines |-> << >>]
    ELSE [err |-> "", lines |-> Tail(content.paras[3])]

\* setTDDFTfromDFTB.get_header: link0 and route, title, charge and
\* multiplicity
get_header(job_name) ==
    << <<"%chk", "# p b3lyp/gen td(singlets,nstates=30)">>, <<"title">>,
       <<"-2 1">> >>

\* setTDDFTfromDFTB.get_basis_set
get_basis_set == <<"C H N O 0", "6-311g*", "****", "Fe 0", "SDD">>

\* the file that write_input_file writes: header, coordinates, basis set
TddftInput(job_name, coordinates) ==
    LET header == get_header(job_name)
    IN  GaussianInput(<<header[1], header[2], header[3] \o coordinates,
                        get_basis_set>>, job_name)

\* setTDDFTfromDFTB.write_input_file on the directory
write_input_file(dir, file_name, coordinates) ==
    LET moved == DictSet(dir, file_name \o <<"~">>, dir[file_name])
    IN  DictSet(moved, file_name,
                TddftInput(JobName(file_name), coordinates))

\* setTDDFTfromDFTB.generate_submission_script: the script it writes and the
\* command it returns
generate_submission_script(cluster, queue, file_name, script_name) ==
    [script |-> [kind |-> "script",
                 paras |-> << <<IF cluster = "henry" THEN "#BSUB -q"
                                 ELSE "#PBS -N", "g09">> >>,
                 job |-> JobName(file_name), cmds |-> << >>],
     command |-> <<IF cluster = "henry" THEN "bsub <" ELSE "qsub",
                   script_name>>]

SuballName == <<"suball", ".sh">>

\* The f-string of lines 140-141 has a line break inside its braces, which
\* only Python 3.12 and later compile.
StCompile ==
    /\ st_pc = "compile"
    /\ IF st_py312
       THEN st_pc' = "main" /\ st_err' = st_err
       ELSE st_pc' = "failed" /\ st_err' = "SyntaxError"
    /\ UNCHANGED <<st_dir, st_before, st_py312, st_com_files,
                   st_submission_commands>>
    /\ UNCHANGED st_rest

\* main: com_files = get_input_files(PREFIX)
StGetInputFiles ==
    /\ st_pc = "main"
    /\ st_com_files' \in Orderings(get_input_files(st_dir, PREFIX))
    /\ st_pc' = "loop"
    /\ UNCHANGED <<st_dir, st_before, st_py312, st_submission_commands,
                   st_err>>
    /\ UNCHANGED st_rest

\* main, loop body: get_header, get_coordinates, write_input_file
StWriteInputFile ==
    /\ st_pc = "loop"
    /\ st_com_files # << >>
    /\ LET com_file == Head(st_com_files)
           coordinates == get_coordinates(st_dir[com_file])
       IN  IF coordinates.err # ""
           THEN /\ st_pc' = "failed"
                /\ st_err' = coordinates.err
                /\ st_dir' = st_dir
           ELSE /\ st_pc' = "generate_submission_script"
                /\ st_err' = st_err
                /\ st_dir' = write_input_file(st_dir, com_file,
                                              coordinates.lines)
    /\ UNCHANGED <<st_before, st_py312, st_com_files,
                   st_submission_commands>>
    /\ UNCHANGED st_rest

\* main, loop body: generate_submission_script(CLUSTER, QUEUE, com_file) is
\* called with three arguments for four parameters
StGenerateSubmissionScript ==
    /\ st_pc = "generate_submission_script"
    /\ st_pc' = "failed"
    /\ st_err' = "TypeError"
    /\ UNCHANGED <<st_dir, st_before, st_py312, st_com_files,
                   st_submission_commands>>
    /\ UNCHANGED st_rest

\* main: suball.sh is written after the loop
StWriteSuball ==
    /\ st_pc = "loop"
    /\ st_com_files = << >>
    /\ st_dir' = DictSet(st_dir, SuballName,
                         [kind |-> "suball", paras |-> << >>, job |-> << >>,
                          cmds |-> st_submission_commands])
    /\ st_pc' = "done"
    /\ UNCHANGED <<st_before, st_py312, st_com_files,
                   st_submission_commands, st_err>>
    /\ UNCHANGED st_rest

StNext ==
    \/ StCompile
    \/ StGetInputFiles
    \/ StWriteInputFile
    \/ StGenerateSubmissionScript
    \/ StWriteSuball

(* ---- properties of setTDDFTfromDFTB ---- *)
\* every selected .com file of the directory has its three paragraphs
WellFormed(dir) ==
    \A f \in get_input_files(dir, PREFIX) : Len(dir[f].paras) >= 3

\* C4: a run of main rewrites every .com file whose name contains PREFIX as
\* a TD-DFT input, writes one submission script for it, and writes suball.sh
\* with exactly one submission command per such file.
C4_AllJobsPrepared ==
    (st_pc \in {"done", "failed"} /\ st_py312 /\ WellFormed(st_before)) =>
        LET com_files == get_input_files(st_before, PREFIX)
        IN  /\ \A f \in com_files :
                 /\ st_dir[f] =
                      TddftInput(JobName(f),
                                 get_coordinates(st_before[f]).lines)
                 /\ \E s \in DOMAIN st_dir :
                      st_dir[s] = generate_submission_script(
                                     CLUSTER, QUEUE, f, s).script
            /\ SuballName \in DOMAIN st_dir
            /\ Len(st_dir[SuballName].cmds) = Cardinality(com_files)
            /\ \A f \in com_files :
                 \E i \in 1..Len(st_dir[SuballName].cmds), s \in DOMAIN st_dir :
                    st_dir[SuballName].cmds[i] =
                      generate_submission_script(CLUSTER, QUEUE, f, s).command

(* ============================== xml2list =============================== *)

\* A token of a line is an attribute key="value" (key and val), or a bare
\* word (key only).
PEAK2D == [key |-> "<Peak2D", val |-> ""]

XmlLines ==
    { << >>,
      <<[key |-> "<PeakList2D>", val |-> ""]>>,
      <<PEAK2D, [key |-> "F1", val |-> "118.2"], [key |-> "F2", val |-> "8.31"],
        [key |-> "annotation", val |-> "G12"], [key |-> "intensity", val |-> "4500"],
        [key |-> "type=0/>", val |-> ""]>>,
      <<PEAK2D, [key |-> "F1", val |-> "121.7"], [key |-> "F2", val |-> "7.95"],
        [key |-> "annotation", val |-> "A40"], [key |-> "intensity", val |-> "380"],
        [key |-> "type=0/>", val |-> ""]>>,
      <<PEAK2D, [key |-> "F1", val |-> "109.0"]>>,
      <<PEAK2D, [key |-> "F1", val |-> "115.3"], [key |-> "F2", val |-> "8.02"],
        [key |-> "intensity", val |-> "910"], [key |-> "type=0/>", val |-> ""]>> }

\* sys.argv: the script name and the arguments; an argument is a path
XmlArgv ==
    { <<<<"xml2list", ".py">>>> }
    \cup { <<<<"xml2list", ".py">>, p>> :
             p \in { <<"peaks", ".xml">>, <<"peaksxml">>,
                     <<"peaks", ".list">> } }

\* path[-3:]
LastThree(path) ==
    IF path = << >> THEN ""
    ELSE CASE path[Len(path)] = ".xml" -> "xml"
           [] path[Len(path)] = "peaksxml" -> "xml"
           [] path[Len(path)] = ".list" -> "ist"
           [] OTHER -> path[Len(path)]

\* xml2list.check
check(argv) ==
    IF Len(argv) = 0
    THEN [exit |-> TRUE, err |-> "", xfile |-> << >>,
          stdout |-> <<"Error! No XML file specified.", "Exiting now...">>]
    ELSE IF Len(argv) < 2
    THEN [exit |-> FALSE, err |-> "IndexError", xfile |-> << >>,
          stdout |-> << >>]
    ELSE IF LastThree(argv[2]) # "xml"
    THEN [exit |-> TRUE, err |-> "", xfile |-> << >>,
          stdout |-> <<"Error! File is not XML format.", "Exiting now...">>]
    ELSE [exit |-> FALSE, err |-> "", xfile |-> argv[2], stdout |-> << >>]

RECURSIVE getpeakinfo(_)
\* xml2list.getpeakinfo: the token lists of the lines that start with
\* <Peak2D
getpeakinfo(lines) ==
    IF lines = << >> THEN << >>
    ELSE IF Len(Head(lines)) = 0 THEN getpeakinfo(Tail(lines))
    ELSE IF Head(lines)[1] = PEAK2D
         THEN <<Head(lines)>> \o getpeakinfo(Tail(lines))
         ELSE getpeakinfo(Tail(lines))

\* the number of characters of key=
KeyLength(key) ==
    CASE key = "F1" -> 3 [] key = "F2" -> 3 [] key = "annotation" -> 11
      [] key = "intensity" -> 10 [] OTHER -> 0

\* token.replace('"', '')[n:]: the value when key= is n characters long
DropKey(token, n) ==
    IF KeyLength(token.key) = n THEN token.val ELSE "?"

HEADERLINE == <<"Assignment", "w1", "w2", "Data Height">>

\* the line makelistfile writes for a peak
ListLine(peak) ==
    <<DropKey(peak[4], 11), DropKey(peak[2], 3), DropKey(peak[3], 3),
      DropKey(peak[5], 10)>>

RECURSIVE ListLines(_)
\* xml2list.makelistfile: the lines written up to the first peak that has
\* fewer than five tokens
ListLines(peaks) ==
    IF peaks = << >> \/ Len(Head(peaks)) < 5 THEN << >>
    ELSE <<ListLine(Head(peaks))>> \o ListLines(Tail(peaks))

NoListFile == [exists |-> FALSE, lines |-> << >>]

\* main: infile = check()
XlCheck ==
    /\ xl_pc = "check"
    /\ LET r == check(xl_argv)
       IN  /\ xl_stdout' = r.stdout
           /\ xl_err' = r.err
           /\ xl_pc' = IF r.err # "" THEN "failed"
                       ELSE IF r.exit THEN "exited"
                       ELSE "getpeakinfo"
    /\ UNCHANGED <<xl_argv, xl_xml, xl_isfile, xl_opened, xl_peaks, xl_list>>
    /\ UNCHANGED xl_rest

\* main: getpeakinfo(infile)
XlGetPeakInfo ==
    /\ xl_pc = "getpeakinfo"
    /\ IF xl_isfile
       THEN /\ xl_opened' = TRUE
            /\ xl_peaks' = getpeakinfo(xl_xml)
            /\ xl_pc' = "makelistfile"
            /\ xl_err' = xl_err
       ELSE /\ xl_pc' = "failed"
            /\ xl_err' = "IOError"
            /\ UNCHANGED <<xl_opened, xl_peaks>>
    /\ UNCHANGED <<xl_argv, xl_xml, xl_isfile, xl_stdout, xl_list>>
    /\ UNCHANGED xl_rest

\* main: makelistfile(infile, peaks)
XlMakeListFile ==
    /\ xl_pc = "makelistfile"
    /\ xl_list' = [exists |-> TRUE,
                   lines |-> <<HEADERLINE>> \o ListLines(xl_peaks)]
    /\ IF \E i \in 1..Len(xl_peaks) : Len(xl_peaks[i]) < 5
       THEN xl_pc' = "failed" /\ xl_err' = "IndexError"
       ELSE xl_pc' = "done" /\ xl_err' = xl_err
    /\ UNCHANGED <<xl_argv, xl_xml, xl_isfile, xl_stdout, xl_opened,
                   xl_peaks>>
    /\ UNCHANGED xl_rest

XlNext == XlCheck \/ XlGetPeakInfo \/ XlMakeListFile

(* ---- properties of xml2list ---- *)
\* C10: invoked with no file argument, xml2list prints 'Error! No XML file
\* specified.' and 'Exiting now...' and exits without an exception and
\* without reading or writing a file.
C10_NoFileArgument ==
    (xl_pc \notin {"idle", "check"} /\ Len(xl_argv) = 1) =>
        /\ xl_pc = "exited"
        /\ xl_err = ""
        /\ xl_stdout = <<"Error! No XML file specified.", "Exiting now...">>
        /\ ~xl_opened
        /\ xl_list = NoListFile

\* the value of the attribute key of a line, "" when the line has none
Attr(line, key) ==
    IF \E i \in 1..Len(line) : line[i].key = key
    THEN line[CHOOSE i \in 1..Len(line) : line[i].key = key].val
    ELSE ""

\* the input lines whose first token is <Peak2D
Peak2DLines ==
    SelectSeq(xl_xml, LAMBDA line : Len(line) > 0 /\ line[1] = PEAK2D)

\* C14: out.list is the header line 'Assignment    w1    w2    Data Height'
\* followed by exactly one line per input line whose first token is
\* '<Peak2D', in input order, holding that peak's annotation, F1, F2 and
\* intensity values; every other input line contributes nothing.
C14_OneLinePerPeak2D ==
    (xl_pc \in {"done", "failed"} /\ xl_opened) =>
        /\ xl_list.exists
        /\ xl_list.lines =
              <<HEADERLINE>> \o
                  [n \in 1..Len(Peak2DLines) |->
                      <<Attr(Peak2DLines[n], "annotation"),
                        Attr(Peak2DLines[n], "F1"),
                        Attr(Peak2DLines[n], "F2"),
                        Attr(Peak2DLines[n], "intensity")>>]

\* the same, for the files whose <Peak2D lines all hold F1, F2, annotation
\* and intensity as their second to fifth token
OneLinePerOrderedPeak2D ==
    (\A n \in 1..Len(Peak2DLines) :
        /\ Len(Peak2DLines[n]) >= 5
        /\ [i \in 2..5 |-> Peak2DLines[n][i].key] =
              [i \in 2..5 |-> <<"", "F1", "F2", "annotation",
                                "intensity">>[i]])
        => /\ C14_OneLinePerPeak2D
           /\ xl_opened => xl_pc # "failed"

(* ============================== tmSolver =============================== *)
CZero == <<0, 0>>
CAdd(a, b) == <<a[1] + b[1], a[2] + b[2]>>
CMul(a, b) == <<a[1] * b[1] - a[2] * b[2], a[1] * b[2] + a[2] * b[1]>>
Real(x) == <<x, 0>>

ParamRange == (0 - MaxParam)..MaxParam
RootDomain == { <<x, y>> : x \in (0 - MaxRoot)..MaxRoot,
                           y \in (0 - MaxRoot)..MaxRoot }

\* taum_eqn2: [a, b, c, d]
Eqn2Poly(j0, s2, tau_e) ==
    << Real(0 - 2 * s2),
       Real(5 * j0 - 6 * s2 * tau_e - 2 * tau_e),
       Real(10 * j0 * tau_e - 2 * tau_e * tau_e),
       Real(5 * j0 * tau_e * tau_e) >>

\* taum_eqn3: [a, b, c, d, e, f]
Eqn3Poly(j0, s2, s2_f, tau_f, tau_s) ==
    LET ss == tau_s * tau_s
        ff == tau_f * tau_f
        sf == tau_s * tau_f
    IN  << Real(0 - 2 * s2),
           Real(5 * j0 - 6 * s2 * tau_s - 2 * s2_f * tau_s - 2 * tau_f
                - 4 * s2 * tau_f + 2 * s2_f * tau_f),
           Real(10 * j0 * tau_s - 4 * s2 * ss + 2 * s2_f * ss
                + 10 * j0 * tau_f - 2 * ff - 2 * s2 * ff + 2 * s2_f * ff
                - 4 * sf - 8 * s2 * sf + 8 * s2_f * sf),
           Real(5 * j0 * ss + 5 * j0 * ff + 20 * j0 * sf - 2 * ss * tau_f
                - 8 * s2 * ss * tau_f + 6 * s2_f * ss * tau_f
                - 4 * tau_s * ff - 6 * s2 * tau_s * ff
                + 6 * s2_f * tau_s * ff),
           Real(10 * j0 * tau_s * ff + 10 * j0 * ss * tau_f - 2 * ss * ff
                - 4 * s2 * ss * ff + 4 * s2_f * ss * ff),
           Real(5 * j0 * ss * ff) >>

RECURSIVE SynDiv(_, _, _)
\* Horner's scheme: the quotient of p by (x - z), then the remainder p(z)
SynDiv(p, z, prev) ==
    IF p = << >> THEN << >>
    ELSE LET v == CAdd(Head(p), CMul(z, prev))
         IN  <<v>> \o SynDiv(Tail(p), z, v)

RECURSIVE Multiplicity(_, _)
Multiplicity(p, z) ==
    IF Len(p) < 2 THEN 0
    ELSE LET s == SynDiv(p, z, CZero)
         IN  IF s[Len(s)] = CZero
             THEN 1 + Multiplicity(SubSeq(s, 1, Len(s) - 1), z)
             ELSE 0

RECURSIVE StripLeading(_)
StripLeading(p) ==
    IF p = << >> THEN << >>
    ELSE IF Head(p) = CZero THEN StripLeading(Tail(p)) ELSE p

RECURSIVE TrailingZeros(_)
TrailingZeros(p) ==
    IF p = << >> THEN 0
    ELSE IF p[Len(p)] = CZero
         THEN 1 + TrailingZeros(SubSeq(p, 1, Len(p) - 1))
         ELSE 0

\* np.roots(p): the arrays it can return.  Leading and trailing zero
\* coefficients are stripped; the eigenvalues of the companion matrix
\* come in an order the library does not fix, and a zero root for every
\* trailing zero coefficient comes last.  An all-zero p has no roots.
np_roots(p) ==
    LET q0 == StripLeading(p)
        k == TrailingZeros(q0)
        q == SubSeq(q0, 1, Len(q0) - k)
        n == IF q = << >> THEN 0 ELSE Len(q) - 1
        Z == { z \in RootDomain : Multiplicity(q, z) > 0 }
        eig == { s \in [1..n -> Z] :
                   \A z \in Z :
                      Cardinality({ i \in 1..n : s[i] = z })
                          = Multiplicity(q, z) }
    IN  IF q = << >> THEN { << >> }
        ELSE { s \o [i \in 1..k |-> CZero] : s \in eig }

\* the parameters for which every root of the polynomial is a Gaussian
\* integer of RootDomain
Eqn2Params ==
    { t \in ParamRange \X ParamRange \X ParamRange :
        np_roots(Eqn2Poly(t[1], t[2], t[3])) # {} }

Eqn3Params ==
    { t \in ParamRange \X ParamRange \X ParamRange \X ParamRange
            \X ParamRange :
        np_roots(Eqn3Poly(t[1], t[2], t[3], t[4], t[5])) # {} }

NaN == [nan |-> TRUE, val |-> CZero]

RealPositive(z) == z[2] = 0 /\ z[1] > 0

\* taum_eqn2, lines 115-116, on the array np.roots returned
taum_eqn2(roots) ==
    LET tau_m == SelectSeq(roots, RealPositive)
    IN  IF Len(tau_m) > 0 THEN [nan |-> FALSE, val |-> tau_m[1]] ELSE NaN

\* taum_eqn3, lines 157-160, on the array np.roots returned
taum_eqn3(roots) ==
    IF Len(roots) = 0 \/ roots[1] = CZero THEN NaN
    ELSE [nan |-> FALSE, val |-> roots[1]]

NoTau == [nan |-> FALSE, val |-> CZero]

TmPoly ==
    IF tm_fn = "taum_eqn2"
    THEN Eqn2Poly(tm_params[1], tm_params[2], tm_params[3])
    ELSE Eqn3Poly(tm_params[1], tm_params[2], tm_params[3], tm_params[4],
                  tm_params[5])

TmTaumEqn2 ==
    /\ tm_pc = "call"
    /\ tm_fn = "taum_eqn2"
    /\ \E roots \in np_roots(TmPoly) :
          /\ tm_roots' = roots
          /\ tm_tau_m' = taum_eqn2(roots)
    /\ tm_pc' = "returned"
    /\ UNCHANGED <<tm_fn, tm_params>>
    /\ UNCHANGED tm_rest

TmTaumEqn3 ==
    /\ tm_pc = "call"
    /\ tm_fn = "taum_eqn3"
    /\ \E roots \in np_roots(TmPoly) :
          /\ tm_roots' = roots
          /\ tm_tau_m' = taum_eqn3(roots)
    /\ tm_pc' = "returned"
    /\ UNCHANGED <<tm_fn, tm_params>>
    /\ UNCHANGED tm_rest

TmNext == TmTaumEqn2 \/ TmTaumEqn3

(* ---- properties of tmSolver ---- *)
HasRealPositiveRoot(p) ==
    \E z \in RootDomain :
        RealPositive(z) /\ Multiplicity(StripLeading(p), z) > 0

\* tau is a real, strictly positive root of p, or NaN when p has none
RealPositiveRootOrNaN(tau, p) ==
    IF HasRealPositiveRoot(p)
    THEN /\ ~tau.nan
         /\ RealPositive(tau.val)
         /\ SynDiv(p, tau.val, CZero)[Len(p)] = CZero
    ELSE tau.nan

\* taum_eqn2 alone: a real, strictly positive root, or NaN without one
TauEqn2RealPositiveOrNaN ==
    (tm_pc = "returned" /\ tm_fn = "taum_eqn2") =>
        RealPositiveRootOrNaN(tm_tau_m, TmPoly)

\* C9: taum_eqn2 and taum_eqn3 each return a real, strictly positive root
\* of the polynomial built from their parameters, or NaN when it has no
\* such root; never a complex, zero or negative value.
C9_RealPositiveRootOrNaN ==
    tm_pc = "returned" => RealPositiveRootOrNaN(tm_tau_m, TmPoly)


(* ============================ makeCubes4gif ============================ *)
\* A string is the sequence of its characters, so that slicing and
\* formatting act on it as they do in Python.
DIGITS == <<"0", "1", "2", "3", "4", "5", "6", "7", "8", "9">>

\* f"{n}" of a non-negative int: its decimal digits
RECURSIVE Str(_)
Str(n) ==
    IF n < 10 THEN <<DIGITS[n + 1]>>
    ELSE Str(n \div 10) \o <<DIGITS[(n % 10) + 1]>>

\* list(range(start, stop, step)) for step > 0
range(start, stop, step) ==
    [k \in 1..((stop - start + step - 1) \div step) |->
        start + (k - 1) * step]

\* s[:-3]
DropLast3(s) == SubSeq(s, 1, Len(s) - 3)

\* molecule is required, --orbital defaults to L2, --time_fs is any int
McArgs ==
    [molecule : {<<"m">>, <<"h", "2", "o">>},
     orbital : {<<"L", "2">>, <<"H">>},
     time_fs : (0 - 12)..MaxTimeFs]

\* main: cubename = f"{molecule}_{orbital}_cube"
CubeName(args) ==
    args.molecule \o <<"_">> \o args.orbital \o <<"_", "c", "u", "b", "e">>

\* main: wavefile = f"{molecule}_aligned.bind.edyn.wave"
WaveFile(args) ==
    args.molecule \o <<"_", "a", "l", "i", "g", "n", "e", "d", ".", "b",
                       "i", "n", "d", ".", "e", "d", "y", "n", ".", "w",
                       "a", "v", "e">>

\* generate_input_script: the file written under the name cubefile; of the
\* buffer, the fixed region block is constant text, the name and make
\* blocks carry the interpolated values.  chmod sets the mode.
generate_input_script(cubefile, timestep) ==
    [mode |-> "755",
     region |-> "0.25",
     name |-> DropLast3(cubefile),
     make |-> <<<<"1">>, Str(timestep)>>]

\* generate_submission_script of makeCubes4gif: the #BSUB header is
\* constant text but for the job name; the command line is
\* f"cubebuilder {cubefile} {wavefile}".
cube_submission_script(cubefile, wavefile) ==
    [mode |-> "755",
     job |-> DropLast3(cubefile),
     command |-> <<"c", "u", "b", "e", "b", "u", "i", "l", "d", "e", "r",
                   " ">> \o cubefile \o <<" ">> \o wavefile]

BATCHFILE ==
    <<"s", "u", "b", "m", "i", "t", "_", "b", "a", "t", "c", "h", ".", "s",
      "h">>

\* the loop variable runs over range(0, time_fs + 10, 10) with a stop one
\* step short
timesteps_short(time_fs) == range(0, time_fs, 10)

\* the values the loop variable takes: range(0, time_fs + 10, 10)
timesteps(time_fs) == range(0, time_fs + 10, 10)

\* one pass of the loop of generate_all_scripts: 0 becomes 1, the two
\* scripts are written and the bsub command is recorded
McIteration ==
    /\ mc_pc = "loop"
    /\ mc_i <= Len(timesteps(mc_args.time_fs))
    /\ LET t0 == timesteps(mc_args.time_fs)[mc_i]
           timestep == IF t0 = 0 THEN t0 + 1 ELSE t0
           cubefile == CubeName(mc_args) \o <<"_">> \o Str(timestep)
                          \o <<".", "i", "n">>
           subfile == <<"s", "u", "b", "c", "u", "b", "e", "_">>
                          \o DropLast3(cubefile)
           written == DictSet(mc_files, cubefile,
                              generate_input_script(cubefile, timestep))
       IN  /\ mc_files' =
                 DictSet(written, subfile,
                         cube_submission_script(cubefile, WaveFile(mc_args)))
           /\ mc_commands' =
                 Append(mc_commands, <<"b", "s", "u", "b", " ", "<", " ">>
                                        \o subfile)
    /\ mc_i' = mc_i + 1
    /\ UNCHANGED <<mc_args, mc_pc>>
    /\ UNCHANGED mc_rest

\* after the loop: submit_batch.sh gets one line per recorded command
McWriteBatch ==
    /\ mc_pc = "loop"
    /\ mc_i > Len(timesteps(mc_args.time_fs))
    /\ mc_files' = DictSet(mc_files, BATCHFILE,
                           [mode |-> "755", lines |-> mc_commands])
    /\ mc_pc' = "done"
    /\ UNCHANGED <<mc_args, mc_i, mc_commands>>
    /\ UNCHANGED mc_rest

McNext == McIteration \/ McWriteBatch

(* ---- properties of makeCubes4gif ---- *)
\* the timesteps of a run: the multiples of 10 below time_fs + 10, with 0
\* replaced by 1
Timesteps(time_fs) ==
    {IF t = 0 THEN 1 ELSE t : t \in {u \in 0..(time_fs + 9) : u % 10 = 0}}

\* '<cubename>_<t>.in'
InputName(t) ==
    CubeName(mc_args) \o <<"_">> \o Str(t) \o <<".", "i", "n">>

\* 'subcube_<cubename>_<t>'
SubName(t) ==
    <<"s", "u", "b", "c", "u", "b", "e", "_">>
        \o CubeName(mc_args) \o <<"_">> \o Str(t)

\* C12: for time_fs >= 0 every timestep t of range(0, time_fs + 10, 10),
\* with 0 replaced by 1, has its input script '<cubename>_<t>.in' and its
\* submission script 'subcube_<cubename>_<t>' that runs cubebuilder on
\* that input script; submit_batch.sh holds exactly one line
\* 'bsub < subcube_<cubename>_<t>' per timestep, in increasing t, and
\* every script it names has been written.
C12_OneScriptPairPerTimestep ==
    (mc_pc = "done" /\ mc_args.time_fs >= 0) =>
        LET T == Timesteps(mc_args.time_fs)
            batch == mc_files[BATCHFILE].lines
        IN  /\ DOMAIN mc_files =
                  {InputName(t) : t \in T} \cup {SubName(t) : t \in T}
                      \cup {BATCHFILE}
            /\ Cardinality(DOMAIN mc_files) = 2 * Cardinality(T) + 1
            /\ \A t \in T :
                  /\ mc_files[InputName(t)].name = DropLast3(InputName(t))
                  /\ mc_files[InputName(t)].make = <<<<"1">>, Str(t)>>
                  /\ mc_files[SubName(t)].command =
                        <<"c", "u", "b", "e", "b", "u", "i", "l", "d", "e",
                          "r", " ">> \o InputName(t) \o <<" ">>
                            \o WaveFile(mc_args)
            /\ Len(batch) = Cardinality(T)
            /\ \A k \in 1..Len(batch) :
                  LET t == IF k = 1 THEN 1 ELSE 10 * (k - 1)
                  IN  /\ t \in T
                      /\ batch[k] = <<"b", "s", "u", "b", " ", "<", " ">>
                                       \o SubName(t)
                      /\ SubName(t) \in DOMAIN mc_files

\* a run over 25 fs: the scripts of the timesteps 1, 10, 20 and 30
C12_Witness ==
    /\ mc_pc = "done"
    /\ mc_args.time_fs = 25
    /\ Len(mc_files[BATCHFILE].lines) = 4
    /\ mc_files[BATCHFILE].lines[4] = <<"b", "s", "u", "b", " ", "<", " ">>
                                         \o SubName(30)
    /\ Cardinality(DOMAIN mc_files) = 9


(* ============================== list2peaks ============================= *)
\* A line of the LIST file: whether it is indented, and its whitespace
\* separated fields; a line without fields is blank.
ListFileLines ==
    { [indent |-> b, fields |-> f] :
        b \in BOOLEAN,
        f \in { << >>,
                <<"Assignment", "w1", "w2", "Data", "Height">>,
                <<"A1N-H", "118.5", "8.25", "1000">>,
                <<"G2N-H", "109.0", "7.90">>,
                <<"?-?", "120.1">> } }

ListFiles ==
    UNION { [1..n -> ListFileLines] : n \in 0..MaxListLines }

\* line.strip() drops the indentation; 'not line' holds for a line without
\* fields, line.startswith("Assignment") looks at the first field
Skipped(line) ==
    \/ line.fields = << >>
    \/ line.fields[1] \in {"Assignment", "Assignments"}

\* "# Number of dimensions 2\n"
PEAKSHEADER == <<"# Number of dimensions 2">>

\* the two lines of peak_entry
peak_entry(num, peak) ==
    << <<Str(num), peak[2], peak[3], "1 - 0.000E00 0.000E00 - 0 0 0 0">>,
       <<"#", peak[1]>> >>

\* the entries of peaks[from..upto], numbered from 'from'
RECURSIVE PeakEntries(_, _, _)
PeakEntries(peaks, from, upto) ==
    IF from > upto THEN << >>
    ELSE peak_entry(from, peaks[from]) \o PeakEntries(peaks, from + 1, upto)

\* peak[1] or peak[2] is out of range
ShortPeaks(peaks) == {n \in 1..Len(peaks) : Len(peaks[n]) < 3}

Min(S) == CHOOSE n \in S : \A m \in S : n <= m

\* get_peak_info, one pass of 'for line in file'
LpReadLine ==
    /\ lp_pc = "get_peak_info"
    /\ lp_i <= Len(lp_listfile)
    /\ lp_peaks' = IF Skipped(lp_listfile[lp_i]) THEN lp_peaks
                   ELSE Append(lp_peaks, lp_listfile[lp_i].fields)
    /\ lp_i' = lp_i + 1
    /\ UNCHANGED <<lp_listfile, lp_pc, lp_peaksfile, lp_err>>
    /\ UNCHANGED lp_rest

\* write_peaksfile: the header, then the entries in order; the first peak
\* with fewer than three fields raises IndexError and the file keeps what
\* was written before it
LpWritePeaksfile ==
    /\ lp_pc = "get_peak_info"
    /\ lp_i > Len(lp_listfile)
    /\ IF ShortPeaks(lp_peaks) = {}
       THEN /\ lp_peaksfile' =
                  [exists |-> TRUE,
                   lines |-> <<PEAKSHEADER>>
                                \o PeakEntries(lp_peaks, 1, Len(lp_peaks))]
            /\ lp_pc' = "done"
            /\ UNCHANGED lp_err
       ELSE /\ lp_peaksfile' =
                  [exists |-> TRUE,
                   lines |-> <<PEAKSHEADER>>
                                \o PeakEntries(lp_peaks, 1,
                                               Min(ShortPeaks(lp_peaks)) - 1)]
            /\ lp_pc' = "failed"
            /\ lp_err' = IndexError
    /\ UNCHANGED <<lp_listfile, lp_i, lp_peaks>>
    /\ UNCHANGED lp_rest

LpNext == LpReadLine \/ LpWritePeaksfile

(* ---- properties of list2peaks ---- *)
\* the input lines that are not blank and do not start with 'Assignment'
PeakLines == SelectSeq(lp_listfile, LAMBDA line : ~Skipped(line))

\* C13: every non-blank input line that does not start with 'Assignment'
\* yields exactly one peak entry: the output starts with the line
\* '# Number of dimensions 2', the entries are numbered 1..N in input
\* order, and entry n carries the second and third field of the n-th such
\* line, followed by the comment line '#<first field>'.
C13_OneEntryPerPeakLine ==
    lp_pc \in {"done", "failed"} =>
        LET out == lp_peaksfile.lines
        IN  /\ lp_peaksfile.exists
            /\ Len(out) = 1 + 2 * Len(PeakLines)
            /\ out[1] = PEAKSHEADER
            /\ \A n \in 1..Len(PeakLines) :
                  /\ Len(PeakLines[n].fields) >= 3
                  /\ out[2 * n][1] = Str(n)
                  /\ out[2 * n][2] = PeakLines[n].fields[2]
                  /\ out[2 * n][3] = PeakLines[n].fields[3]
                  /\ out[2 * n + 1] = <<"#", PeakLines[n].fields[1]>>

\* the same, for the runs whose peak lines all have three fields or more
OneEntryPerCompletePeakLine ==
    (\A n \in 1..Len(PeakLines) : Len(PeakLines[n].fields) >= 3) =>
        /\ lp_pc # "failed"
        /\ C13_OneEntryPerPeakLine

(* ========================= specifications ============================== *)
\* A behaviour is a run of one script; the state of every other script
\* stays as it is before that script has run.
OthersIdle(script) ==
    /\ IF script = "fchk2xyz" THEN TRUE
       ELSE /\ fx_path = << >>
            /\ fx_file = << >>
            /\ fx_pc = "idle"
            /\ fx_flags = EmptyDict
            /\ fx_xyz = NoFile
            /\ fx_err = ""
    /\ IF script = "get_user_inputs" THEN TRUE
       ELSE /\ rc_log = NoLog
            /\ rc_session = 0
            /\ rc_call = NoCall
    /\ IF script = "rmCosmicRays" THEN TRUE
       ELSE /\ sp_files = << >>
            /\ sp_baseline = <<0>>
            /\ sp_fit = [slope |-> 2, intercept |-> 100]
            /\ sp_pc = "idle"
            /\ sp_data = << >>
            /\ sp_den = 1
            /\ sp_out = NoSpectraOut
            /\ sp_err = ""
    /\ IF script = "analyzeTDDFT" THEN TRUE
       ELSE /\ td_isfile = FALSE
            /\ td_logfile = << >>
            /\ td_writable = FALSE
            /\ td_side = "HEAD"
            /\ td_outfile = NoOutfile
            /\ td_stdout = << >>
            /\ td_exc = NoExc
            /\ td_args = [nm_min |-> 50, nm_max |-> 150, osc_min |-> 1]
            /\ td_pc = "idle"
            /\ td_line_number = 1
            /\ td_excited_states = EmptyDict
    /\ IF script = "cubeGridGen" THEN TRUE
       ELSE /\ cg_args = [xyzfile |-> << >>, pad |-> 0, nx |-> 0, ny |-> 0,
                          nz |-> 0, pts |-> 0]
            /\ cg_atoms = << >>
            /\ cg_pc = "idle"
            /\ cg_grid = << >>
            /\ cg_step = <<0, 0, 0>>
            /\ cg_written = EmptyDict
            /\ cg_err = ""
    /\ IF script = "parse_arguments" THEN TRUE
       ELSE /\ ar_script = "bind2com"
            /\ ar_args = [path |-> << >>, isfile |-> FALSE, n |-> 0]
            /\ ar_pc = "idle"
            /\ ar_opened = {}
            /\ ar_created = {}
            /\ ar_err = ""
    /\ IF script = "setTDDFTfromDFTB" THEN TRUE
       ELSE /\ st_dir = EmptyDict
            /\ st_before = EmptyDict
            /\ st_py312 = TRUE
            /\ st_pc = "idle"
            /\ st_com_files = << >>
            /\ st_submission_commands = << >>
            /\ st_err = ""
    /\ IF script = "tmSolver" THEN TRUE
       ELSE /\ tm_fn = ""
            /\ tm_params = << >>
            /\ tm_pc = "idle"
            /\ tm_roots = << >>
            /\ tm_tau_m = NoTau
    /\ IF script = "xml2list" THEN TRUE
       ELSE /\ xl_argv = << >>
            /\ xl_xml = << >>
            /\ xl_isfile = FALSE
            /\ xl_pc = "idle"
            /\ xl_stdout = << >>
            /\ xl_opened = FALSE
            /\ xl_peaks = << >>
            /\ xl_list = NoListFile
            /\ xl_err = ""
    /\ IF script = "makeCubes4gif" THEN TRUE
       ELSE /\ mc_args = << >>
            /\ mc_pc = "idle"
            /\ mc_i = 0
            /\ mc_commands = << >>
            /\ mc_files = EmptyDict
    /\ IF script = "list2peaks" THEN TRUE
       ELSE /\ lp_listfile = << >>
            /\ lp_pc = "idle"
            /\ lp_i = 0
            /\ lp_peaks = << >>
            /\ lp_peaksfile = [exists |-> FALSE, lines |-> << >>]
            /\ lp_err = NoExc

InitFchk ==
    /\ fx_path \in { <<"mol", ".fchk">>, <<"mol", ".fchk", ".bak">> }
    /\ fx_file \in UNION { [1..n -> FchkLines] : n \in 0..MaxLines }
    /\ fx_pc = "parse_arguments"
    /\ fx_flags = EmptyDict
    /\ fx_xyz = NoFile
    /\ fx_err = ""
    /\ OthersIdle("fchk2xyz")

SpecFchk == InitFchk /\ [][FxNext]_vars

\* a fresh working directory: no last_values.json, no invocation yet
InitRmInputs ==
    /\ rc_log = NoLog
    /\ rc_session = 0
    /\ rc_call = NoCall
    /\ OthersIdle("get_user_inputs")

SpecRmInputs == InitRmInputs /\ [][RcNext]_vars

InitRmSpectra ==
    /\ sp_files \in UNION { [1..n -> [1..px -> Intensities]] :
                               n \in 0..MaxSpectra, px \in 1..MaxPixels }
    /\ sp_baseline \in IncreasingPoints(IF sp_files = << >> THEN 1
                                        ELSE Len(sp_files[1]))
    /\ sp_fit \in { [slope |-> 2, intercept |-> 100],
                    [slope |-> 3, intercept |-> 50] }
    /\ sp_pc = "load_spectra"
    /\ sp_data = << >>
    /\ sp_den = 1
    /\ sp_out = NoSpectraOut
    /\ sp_err = ""
    /\ OthersIdle("rmCosmicRays")

SpecRmSpectra == InitRmSpectra /\ [][SpNext]_vars

\* the log file may be missing, the output file may be impossible to
\* open, and the merge markers left in the source may be resolved to
\* either side
InitTddft ==
    /\ td_isfile \in BOOLEAN
    /\ td_logfile \in IF td_isfile
                      THEN UNION { [1..n -> LogLines] : n \in 0..MaxLogLines }
                      ELSE { << >> }
    /\ td_writable \in BOOLEAN
    /\ td_side \in {"HEAD", "7e12067"}
    /\ td_outfile = NoOutfile
    /\ td_stdout = << >>
    /\ td_exc = NoExc
    /\ td_args \in { [nm_min |-> 50, nm_max |-> 150, osc_min |-> 1],
                     [nm_min |-> 150, nm_max |-> 151, osc_min |-> 0] }
    /\ td_pc = "read_logfile"
    /\ td_line_number = 1
    /\ td_excited_states = EmptyDict
    /\ OthersIdle("analyzeTDDFT")

SpecTddft == InitTddft /\ [][TdNext]_vars

InitCube ==
    /\ cg_args \in CubeArgs
    /\ cg_atoms \in { <<[x |-> 0, y |-> 0, z |-> 0]>>,
                      <<[x |-> 0, y |-> 1, z |-> -2],
                        [x |-> 3, y |-> 0, z |-> 0]>> }
    /\ cg_pc = "parse_arguments"
    /\ cg_grid = << >>
    /\ cg_step = <<0, 0, 0>>
    /\ cg_written = EmptyDict
    /\ cg_err = ""
    /\ OthersIdle("cubeGridGen")

SpecCube == InitCube /\ [][CgNext]_vars

InitArgs ==
    /\ ar_script \in {"bind2com", "fchk2xyz", "cubeGridGen", "list2peaks",
                      "svdAnalysis", "tmSolver"}
    /\ ar_args \in CommandLines
    /\ ar_pc = "parse_arguments"
    /\ ar_opened = {}
    /\ ar_created = {}
    /\ ar_err = ""
    /\ OthersIdle("parse_arguments")

SpecArgs == InitArgs /\ [][ArNext]_vars

InitSetTddft ==
    /\ \E S \in SUBSET { <<PREFIX, "1", ".com">>, <<"x_", PREFIX, "2", ".com">>,
                         <<"other", ".com">>, <<PREFIX, "1", ".log">> } :
          st_dir \in
            [S -> { GaussianInput(<< <<"# dftb">>, <<"scan">>,
                                     <<"0 1", "C 0.0 0.0 0.0",
                                       "H 0.0 0.0 1.1">> >>, << >>),
                    GaussianInput(<< <<"# dftb">>, <<"scan">> >>, << >>) }]
    /\ st_before = st_dir
    /\ st_py312 \in BOOLEAN
    /\ st_pc = "compile"
    /\ st_com_files = << >>
    /\ st_submission_commands = << >>
    /\ st_err = ""
    /\ OthersIdle("setTDDFTfromDFTB")

SpecSetTddft == InitSetTddft /\ [][StNext]_vars

\* one call of get_tau to taum_eqn2(*params_eq2) or to
\* taum_eqn3(*params_eq3)
InitTmSolver ==
    /\ \/ tm_fn = "taum_eqn2" /\ tm_params \in Eqn2Params
       \/ tm_fn = "taum_eqn3" /\ tm_params \in Eqn3Params
    /\ tm_pc = "call"
    /\ tm_roots = << >>
    /\ tm_tau_m = NoTau
    /\ OthersIdle("tmSolver")

SpecTmSolver == InitTmSolver /\ [][TmNext]_vars

InitXml2list ==
    /\ xl_argv \in XmlArgv
    /\ xl_xml \in UNION { [1..n -> XmlLines] : n \in 0..MaxXmlLines }
    /\ xl_isfile \in BOOLEAN
    /\ xl_pc = "check"
    /\ xl_stdout = << >>
    /\ xl_opened = FALSE
    /\ xl_peaks = << >>
    /\ xl_list = NoListFile
    /\ xl_err = ""
    /\ OthersIdle("xml2list")

SpecXml2list == InitXml2list /\ [][XlNext]_vars

InitMakeCubes ==
    /\ mc_args \in McArgs
    /\ mc_pc = "loop"
    /\ mc_i = 1
    /\ mc_commands = << >>
    /\ mc_files = EmptyDict
    /\ OthersIdle("makeCubes4gif")

SpecMakeCubes == InitMakeCubes /\ [][McNext]_vars

InitList2peaks ==
    /\ lp_listfile \in ListFiles
    /\ lp_pc = "get_peak_info"
    /\ lp_i = 1
    /\ lp_peaks = << >>
    /\ lp_peaksfile = [exists |-> FALSE, lines |-> << >>]
    /\ lp_err = NoExc
    /\ OthersIdle("list2peaks")

SpecList2peaks == InitList2peaks /\ [][LpNext]_vars
====
